---- MODULE Spec2Model ----
(***************************************************************************)
(* A model of the NTFS image parser (ntfs_parser/src): the segment reader  *)
(* SplitImageFile, the boot sector and MFT record decoders, and the        *)
(* NTFSVolume / NTFSFile operations built on them.                         *)
(*                                                                         *)
(* Bytes are represented by where they come from.  A byte string read from *)
(* the image is a sequence of pieces [seg, off, len]: len bytes of segment *)
(* file number seg starting at byte off.  Structures stored in the image   *)
(* (MBR, boot sector, MFT records, index blocks) are given by their fields *)
(* at the byte position where they start.                                  *)
(***************************************************************************)
EXTENDS Integers, Sequences, FiniteSets, TLC

VARIABLES
    segs,              \* the image on disk: segs[i] = length of <base>.00i
    image,             \* the image on disk: the structures stored in it
    split_image,       \* NTFSVolume.split_image / the SplitImageFile object
    boot_sector,       \* NTFSVolume.boot_sector
    partition_offset,  \* NTFSVolume.partition_offset
    mft_cache,         \* NTFSVolume.mft_cache
    views,             \* the NTFSFile objects handed out so far
    result,            \* what the last operation returned
    lifecycle          \* history: "Unmounted", "Mounted" or "Closed"

vars == <<segs, image, split_image, boot_sector, partition_offset, mft_cache,
          views, result, lifecycle>>

(***************************************************************************)
(* Bounds of the model.                                                    *)
(***************************************************************************)
MaxSegs == 2
MaxSegLen == 2
MaxReadLen == 3

(***************************************************************************)
(* Byte strings as sequences of pieces.                                    *)
(***************************************************************************)
Piece(s, o, l) == [seg |-> s, off |-> o, len |-> l]

RECURSIVE PLen(_)
PLen(ps) == IF ps = <<>> THEN 0 ELSE Head(ps).len + PLen(Tail(ps))

\* b1 + b2 where empty strings leave no piece behind
PCat(ps, qs) == ps \o SelectSeq(qs, LAMBDA p : p.len > 0)

\* data[:n]
RECURSIVE PTake(_, _)
PTake(ps, n) ==
    IF ps = <<>> \/ n <= 0 THEN <<>>
    ELSE IF Head(ps).len <= n
         THEN <<Head(ps)>> \o PTake(Tail(ps), n - Head(ps).len)
         ELSE <<Piece(Head(ps).seg, Head(ps).off, n)>>

\* Optional[bytes]: None, or a byte string
NoneData == [none |-> TRUE, pieces |-> <<>>]
SomeData(ps) == [none |-> FALSE, pieces |-> SelectSeq(ps, LAMBDA p : p.len > 0)]

\* Python's "not data" for Optional[bytes]
Falsy(d) == d.none \/ PLen(d.pieces) = 0

(***************************************************************************)
(* SplitImageFile (split_volume.py).                                       *)
(***************************************************************************)
Handle == [pos |-> 0, closed |-> FALSE]

SplitImageFile_init == [files |-> <<>>]

\* open(): one handle per segment file found on disk, in order
SplitImageFile_open(si, sg) ==
    IF Len(sg) = 0
    THEN [ok |-> FALSE, si |-> si]
    ELSE [ok |-> TRUE,
          si |-> [files |-> si.files \o [i \in 1..Len(sg) |-> Handle]]]

\* close(): every handle is closed
SplitImageFile_close(si) ==
    [files |-> [i \in 1..Len(si.files) |-> [si.files[i] EXCEPT !.closed = TRUE]]]

\* f.read(size) on an open handle at position pos of a file of length flen
FileRead(s, pos, size, flen) ==
    LET avail == IF pos >= flen THEN 0 ELSE flen - pos
        n     == IF size < 0 \/ size > avail THEN avail ELSE size
    IN  Piece(s, pos, n)

\* files[i] with Python's indexing: 0-based, negative counts from the end
PyIndex(i, n) == IF i < 0 THEN n + i + 1 ELSE i + 1

\* the loop over the following segments (split_volume.py lines 64-71)
RECURSIVE SplitReadSpan(_, _, _, _, _)
SplitReadSpan(files, sg, file_index, remaining, data) ==
    IF ~(remaining > 0 /\ file_index + 1 < Len(files))
    THEN [data |-> SomeData(data), files |-> files]
    ELSE LET i == PyIndex(file_index + 1, Len(files))
             h == files[i]
         IN  IF h.closed
             THEN [data |-> NoneData, files |-> files]
             ELSE LET p  == FileRead(i, h.pos, remaining, sg[i])
                      fs == [files EXCEPT ![i].pos = h.pos + p.len]
                  IN  IF p.len = 0
                      THEN [data |-> SomeData(data), files |-> fs]
                      ELSE SplitReadSpan(fs, sg, file_index + 1,
                                         remaining - p.len, PCat(data, <<p>>))

\* read(offset, size): the data returned and the object afterwards
SplitImageFile_read(si, sg, offset, size) ==
    LET files == si.files
        fail  == [data |-> NoneData, si |-> si]
    IN  IF Len(sg) = 0 THEN fail                  \* getsize raises
        ELSE IF sg[1] = 0 THEN fail               \* division by zero raises
        ELSE LET file_size   == sg[1]
                 file_index  == offset \div file_size
                 file_offset == offset % file_size
             IN  IF file_index >= Len(files) THEN fail
                 ELSE IF file_index < 0 - Len(files) THEN fail   \* IndexError
                 ELSE LET i == PyIndex(file_index, Len(files))
                          h == files[i]
                      IN  IF h.closed THEN fail                  \* ValueError
                          ELSE LET p  == FileRead(i, file_offset, size, sg[i])
                                   fs == [files EXCEPT ![i].pos = file_offset + p.len]
                                   done(r) == [data |-> r.data, si |-> [files |-> r.files]]
                               IN  done(SplitReadSpan(fs, sg, file_index,
                                                      size - p.len, PCat(<<>>, <<p>>)))

(***************************************************************************)
(* Results (core/errors.py).  error = "" is Result.ok; the value of a      *)
(* successful call is in the field its type calls for.                     *)
(***************************************************************************)
NoEntry == [reference |-> 0 - 1, sequence |-> 0, base_reference |-> 0, flags |-> 0,
            used_size |-> 0, allocated_size |-> 0, attributes |-> <<>>]

Ok(op, arg) == [op |-> op, arg |-> arg, error |-> "", entry |-> NoEntry,
                data |-> NoneData, files |-> <<>>]
Err(op, arg, e) == [Ok(op, arg) EXCEPT !.error = e]
OkEntry(op, arg, en) == [Ok(op, arg) EXCEPT !.entry = en]
OkData(op, arg, d) == [Ok(op, arg) EXCEPT !.data = d]
OkFiles(op, arg, fs) == [Ok(op, arg) EXCEPT !.files = fs]

is_ok(r) == r.error = ""
is_err(r) == r.error # ""

(***************************************************************************)
(* The structures of the image, read from a byte string by the position    *)
(* its first byte comes from.  Where the image stores no structure the     *)
(* bytes are zero.                                                         *)
(***************************************************************************)
SectorSize == 512
MftEntrySize == 1024
PartitionTable == 446
PartitionEntrySize == 16
NtfsPartitionType == 7

Start(d) == <<Head(d.pieces).seg, Head(d.pieces).off>>

\* the four bytes of a starting LBA, as stored
Lba(n) == <<n % 256, (n \div 256) % 256, (n \div 65536) % 256, n \div 16777216>>

\* int.from_bytes(b, 'little') of four bytes
U32(b) == b[1] + 256 * (b[2] + 256 * (b[3] + 256 * b[4]))

\* the partition table: the type byte and the LBA bytes of the four entries
ZeroMbr == [ptype |-> <<0, 0, 0, 0>>, lba |-> <<Lba(0), Lba(0), Lba(0), Lba(0)>>]
MbrAt(img, d) ==
    IF d.pieces # <<>> /\ Start(d) \in DOMAIN img.mbr THEN img.mbr[Start(d)] ELSE ZeroMbr

ZeroBoot == [tag |-> "", bps |-> 0, spc |-> 0, total_sectors |-> 0, mft_lcn |-> 0,
             mft_rec_size |-> 0, idx_rec_size |-> 0]
BootAt(img, d) ==
    IF d.pieces # <<>> /\ Start(d) \in DOMAIN img.boot THEN img.boot[Start(d)] ELSE ZeroBoot

(***************************************************************************)
(* NTFSBootSector.from_bytes (boot_sector.py).                             *)
(***************************************************************************)
NoBoot == [set |-> FALSE, bytes_per_sector |-> 0, sectors_per_cluster |-> 0,
           mft_lcn |-> 0, mft_record_size |-> 0, index_record_size |-> 0,
           total_sectors |-> 0]

NTFSBootSector_from_bytes(img, d) ==
    LET b == BootAt(img, d)
    IN  IF PLen(d.pieces) < SectorSize
        THEN [error |-> "INVALID_BOOT_SECTOR", value |-> NoBoot]
        ELSE IF b.tag # "NTFS"
        THEN [error |-> "INVALID_BOOT_SECTOR", value |-> NoBoot]
        ELSE [error |-> "",
              value |-> [set |-> TRUE,
                         bytes_per_sector |-> b.bps,
                         sectors_per_cluster |-> b.spc,
                         mft_lcn |-> b.mft_lcn,
                         mft_record_size |-> b.mft_rec_size,
                         index_record_size |-> b.idx_rec_size,
                         total_sectors |-> b.total_sectors]]

(***************************************************************************)
(* NTFSVolume.mount (volume.py).                                           *)
(***************************************************************************)
NoOffset == 0 - 1      \* the attribute partition_offset has not been assigned

\* a scan that takes the last entry of type 0x07
ScanPartitions_last(mbr, datalen, i) ==
    LET ntfs == {j \in 1..4 : mbr.ptype[j] = NtfsPartitionType}
        last == CHOOSE j \in ntfs : \A k \in ntfs : k <= j
    IN  IF PartitionTable + 3 * PartitionEntrySize + 4 >= datalen
        THEN [kind |-> "raise", offset |-> 0]
        ELSE IF ntfs = {} THEN [kind |-> "none", offset |-> 0]
        ELSE [kind |-> "found", offset |-> U32(mbr.lba[last]) * SectorSize]

\* the scan of the four partition entries: the offset found, "none", or
\* "raise" when an entry lies beyond the bytes read
RECURSIVE ScanPartitions(_, _, _)
ScanPartitions(mbr, datalen, i) ==
    IF i >= 4 THEN [kind |-> "none", offset |-> 0]
    ELSE IF PartitionTable + i * PartitionEntrySize + 4 >= datalen
    THEN [kind |-> "raise", offset |-> 0]
    ELSE IF mbr.ptype[i + 1] = NtfsPartitionType
    THEN [kind |-> "found", offset |-> U32(mbr.lba[i + 1]) * SectorSize]
    ELSE ScanPartitions(mbr, datalen, i + 1)

\* the whole of mount(): the result and the volume's fields afterwards
MountOutcome(img, sg, old_boot, old_off) ==
    LET out(e, si, bs, po) == [error |-> e, si |-> si, boot |-> bs, off |-> po]
        \* from the boot sector read on
        boot(sc, r2, br) ==
            IF Falsy(r2.data) THEN out("IO_ERROR", r2.si, old_boot, sc.offset)
            ELSE IF BootAt(img, r2.data).tag # "NTFS"
            THEN out("IO_ERROR", r2.si, old_boot, sc.offset)
            ELSE IF br.error # "" THEN out(br.error, r2.si, old_boot, sc.offset)
            ELSE out("", r2.si, br.value, sc.offset)
        read_boot(sc, r2) == boot(sc, r2, NTFSBootSector_from_bytes(img, r2.data))
        \* from the partition scan on
        scan(r1, sc) ==
            IF sc.kind = "raise" THEN out("IO_ERROR", r1.si, old_boot, old_off)
            ELSE IF sc.kind = "none" THEN out("IO_ERROR", r1.si, old_boot, old_off)
            ELSE read_boot(sc, SplitImageFile_read(r1.si, sg, sc.offset, SectorSize))
        \* from the MBR read on
        mbr(r1) ==
            IF Falsy(r1.data) THEN out("IO_ERROR", r1.si, old_boot, old_off)
            ELSE scan(r1, ScanPartitions(MbrAt(img, r1.data), PLen(r1.data.pieces), 0))
        opened(o) ==
            IF ~o.ok THEN out("IO_ERROR", o.si, old_boot, old_off)
            ELSE mbr(SplitImageFile_read(o.si, sg, 0, SectorSize))
    IN  opened(SplitImageFile_open(SplitImageFile_init, sg))

Mount ==
    \E m \in {MountOutcome(image, segs, boot_sector, partition_offset)} :
        /\ result.error # "NEVER_RETURNS"
        /\ split_image' = [set |-> TRUE, si |-> m.si]
        /\ boot_sector' = m.boot
        /\ partition_offset' = m.off
        /\ result' = IF m.error = "" THEN Ok("mount", <<>>)
                     ELSE Err("mount", <<>>, m.error)
        /\ lifecycle' = IF m.error = "" THEN "Mounted" ELSE lifecycle
        /\ UNCHANGED <<segs, image, mft_cache, views>>

(***************************************************************************)
(* NTFSVolume.close.                                                       *)
(***************************************************************************)
\* a close() that also forgets the geometry
Close_forgets ==
    /\ result.error # "NEVER_RETURNS"
    /\ split_image' = IF split_image.set
                      THEN [split_image EXCEPT !.si = SplitImageFile_close(@)]
                      ELSE split_image
    /\ boot_sector' = NoBoot
    /\ partition_offset' = NoOffset
    /\ result' = Ok("close", <<>>)
    /\ lifecycle' = "Closed"
    /\ UNCHANGED <<segs, image, mft_cache, views>>

Close ==
    /\ result.error # "NEVER_RETURNS"
    /\ split_image' = IF split_image.set
                      THEN [split_image EXCEPT !.si = SplitImageFile_close(@)]
                      ELSE split_image
    /\ result' = Ok("close", <<>>)
    /\ lifecycle' = "Closed"
    /\ UNCHANGED <<segs, image, boot_sector, partition_offset, mft_cache, views>>

(***************************************************************************)
(* NTFSVolume.read_clusters.                                               *)
(***************************************************************************)
\* the volume as the operators below see it
Volume == [segs |-> segs, image |-> image, split_image |-> split_image,
           boot_sector |-> boot_sector, partition_offset |-> partition_offset,
           mft_cache |-> mft_cache]

WithReader(vol, si) == [vol EXCEPT !.split_image.si = si]

\* the result and the volume afterwards
read_clusters(vol, cluster, count) ==
    LET bs     == vol.boot_sector
        offset == vol.partition_offset
                  + cluster * bs.sectors_per_cluster * bs.bytes_per_sector
        size   == count * bs.sectors_per_cluster * bs.bytes_per_sector
        read(r) ==
            IF Falsy(r.data)
            THEN [error |-> "IO_ERROR", data |-> NoneData, vol |-> WithReader(vol, r.si)]
            ELSE [error |-> "", data |-> r.data, vol |-> WithReader(vol, r.si)]
    IN  IF ~bs.set
        THEN [error |-> "INVALID_PARAMETER", data |-> NoneData, vol |-> vol]
        ELSE read(SplitImageFile_read(vol.split_image.si, vol.segs, offset, size))

(***************************************************************************)
(* MFT records as stored in the image.                                     *)
(*   record:    sig, usn, tails (the last two bytes of each sector), usa,  *)
(*              sequence, attrs_offset, flags, used_size, alloc_size,      *)
(*              base_ref, attrs (record offset -> attribute stored there)  *)
(*   attribute: type, len, nonres, name, content_size, content_offset,     *)
(*              content (what the resident content holds), runs_offset,    *)
(*              data_size (u64 at 0x30), runs_at / runs (the bytes of the  *)
(*              run list and where in the attribute they are stored)       *)
(* AttrEnd stands for the type 0xFFFFFFFF that ends the attribute list.    *)
(***************************************************************************)
AttrEnd == 0 - 1
FILE_NAME == 48
DATA == 128
INDEX_ROOT == 144
INDEX_ALLOCATION == 160

ZeroContent == [name_length |-> 0, namespace |-> 0, name |-> <<>>,
                entries_offset |-> 0, entries |-> <<>>]

ZeroAttr == [type |-> 0, len |-> 0, nonres |-> 0, name |-> <<>>,
             content_size |-> 0, content_offset |-> 0, content |-> ZeroContent,
             runs_offset |-> 0, data_size |-> 0, runs_at |-> 0, runs |-> <<>>]

ZeroRecord == [sig |-> "", usn |-> 0, tails |-> <<0, 0>>, usa |-> <<0, 0>>,
               sequence |-> 0, attrs_offset |-> 0, flags |-> 0, used_size |-> 0,
               alloc_size |-> 0, base_ref |-> 0, attrs |-> <<>>]

RecordAt(img, d) ==
    IF d.pieces # <<>> /\ Start(d) \in DOMAIN img.mft THEN img.mft[Start(d)] ELSE ZeroRecord

AttrAt(rec, o) == IF o \in DOMAIN rec.attrs THEN rec.attrs[o] ELSE ZeroAttr

\* data[a:b] of a byte string of length n that starts at position <<s, o>>
Slice(s, o, n, a, b) ==
    LET lo == IF a > n THEN n ELSE a
        hi == IF b > n THEN n ELSE b
    IN  IF hi > lo THEN <<Piece(s, o + lo, hi - lo)>> ELSE <<>>

RECURSIVE Pow256(_)
Pow256(k) == IF k <= 0 THEN 1 ELSE 256 * Pow256(k - 1)

\* int.from_bytes(data[a:a+w], 'little') of a field holding v, when the byte
\* string has n bytes: the bytes beyond the end are missing from the slice
Field(v, a, w, n) ==
    IF n >= a + w THEN v ELSE IF n <= a THEN 0 ELSE v % Pow256(n - a)

(***************************************************************************)
(* MFTAttribute.from_raw_data (mft.py): the data-run decoder.              *)
(***************************************************************************)
DataRun(c, l) == [cluster |-> c, length |-> l]

\* data[o] of the raw attribute
ByteAt(raw, o) ==
    IF o >= raw.runs_at /\ o < raw.runs_at + Len(raw.runs)
    THEN raw.runs[o - raw.runs_at + 1] ELSE 0

\* int.from_bytes(data[o:o+w], 'little')
RECURSIVE LittleEndian(_, _, _)
LittleEndian(raw, o, w) ==
    IF w = 0 THEN 0 ELSE ByteAt(raw, o) + 256 * LittleEndian(raw, o + 1, w - 1)

\* a cluster offset read without its sign
LcnOffset_unsigned(raw, o, w) == LittleEndian(raw, o, w)

\* the cluster offset of a run: signed when the top bit of the last byte is set
LcnOffset(raw, o, w) ==
    IF ByteAt(raw, o + w - 1) >= 128
    THEN LittleEndian(raw, o, w) - Pow256(w)
    ELSE LittleEndian(raw, o, w)

\* the state of the while loop of from_raw_data: status "loop" while it runs,
\* "done" once it is left, "raised" once an exception has left it
RunLoop(current_offset, current_lcn, runs, status) ==
    [current_offset |-> current_offset, current_lcn |-> current_lcn, runs |-> runs,
     status |-> status]

\* a pass that emits a run and stays at the header it has read
RunIteration_rewind(raw, n, st) ==
    IF ~(st.current_offset < n) \/ ByteAt(raw, st.current_offset) = 0
    THEN [st EXCEPT !.status = "done"]
    ELSE RunLoop(st.current_offset, st.current_lcn,
                 Append(st.runs, DataRun(st.current_lcn, 0)), "loop")

\* one pass through the while loop: the test of the loop and its body
RunIteration(raw, n, st) ==
    LET header      == ByteAt(raw, st.current_offset)
        length_size == header % 16
        offset_size == (header \div 16) % 16
        o1          == st.current_offset + 1
        length      == LittleEndian(raw, o1, length_size)
        lcn         == st.current_lcn + LcnOffset(raw, o1 + length_size, offset_size)
    IN  IF ~(st.current_offset < n) THEN [st EXCEPT !.status = "done"]
        ELSE IF header = 0 THEN [st EXCEPT !.status = "done"]
        ELSE IF o1 + length_size + offset_size > n
        THEN RunLoop(o1, st.current_lcn, st.runs, "done")
        ELSE IF offset_size = 0                        \* lcn_bytes[-1] of b''
        THEN RunLoop(o1 + length_size, st.current_lcn, st.runs, "raised")
        ELSE RunLoop(o1 + length_size + offset_size, lcn,
                     Append(st.runs, DataRun(lcn, length)), "loop")

\* the while loop of from_raw_data; raised = an exception left the loop
RECURSIVE ParseRuns(_, _, _, _, _)
ParseRuns(raw, n, current_offset, current_lcn, runs) ==
    LET next(st) ==
            IF st.status = "loop"
            THEN ParseRuns(raw, n, st.current_offset, st.current_lcn, st.runs)
            ELSE [runs |-> st.runs, raised |-> st.status = "raised"]
    IN  next(RunIteration(raw, n, RunLoop(current_offset, current_lcn, runs, "loop")))

\* the non-resident attribute returned once the loop is left with p: the
\* runs appended so far, and data_size unless an exception skipped line 86
RunsAttribute(raw, name, n, p) ==
    [type_id |-> raw.type, name |-> name, resident |-> FALSE,
     data |-> [pieces |-> <<>>, content |-> ZeroContent],
     data_runs |-> p.runs,
     data_size |-> IF p.raised THEN 0 ELSE Field(raw.data_size, 48, 8, n)]

\* the attribute built from the raw attribute; data is the byte string handed
\* in (the content if resident, the n bytes of the attribute record if not)
from_raw_data(raw, name, resident, data, n) ==
    IF resident
    THEN [type_id |-> raw.type, name |-> name, resident |-> TRUE,
          data |-> [pieces |-> data, content |-> raw.content],
          data_runs |-> <<>>, data_size |-> PLen(data)]
    ELSE RunsAttribute(raw, name, n,
                       ParseRuns(raw, n, Field(raw.runs_offset, 32, 2, n), 0, <<>>))

(***************************************************************************)
(* MFTEntry.from_bytes (mft.py).                                           *)
(***************************************************************************)
\* the state of the while loop of from_bytes: status "loop" while it runs,
\* "ok" once it is left, "raise" once an index out of range has left it
AttrLoop(attr_offset, attrs, status) ==
    [attr_offset |-> attr_offset, attrs |-> attrs, status |-> status]

\* one pass through the while loop: the test of the loop and its body
AttrIteration(rec, s, n, st) ==
    LET raw == AttrAt(rec, st.attr_offset)
        attr_len == Field(raw.len, st.attr_offset + 4, 4, n)
        resident == raw.nonres = 0
        co  == st.attr_offset + raw.content_offset
        attr_data ==
            IF resident THEN Slice(s.seg, s.off, n, co, co + raw.content_size)
            ELSE Slice(s.seg, s.off, n, st.attr_offset, st.attr_offset + attr_len)
        attr == from_raw_data(raw, raw.name, resident, attr_data, PLen(attr_data))
    IN  IF ~(st.attr_offset < rec.used_size) THEN [st EXCEPT !.status = "ok"]
        ELSE IF raw.type = AttrEnd /\ st.attr_offset + 4 <= n
        THEN [st EXCEPT !.status = "ok"]
        ELSE IF st.attr_offset + 9 >= n THEN [st EXCEPT !.status = "raise"]
        ELSE AttrLoop(st.attr_offset + attr_len, Append(st.attrs, attr), "loop")

\* the attribute walk: "ok" with the attributes, "raise" when an index is
\* out of range, "hang" when a pass leaves attr_offset where it was: every
\* later pass reads the same attribute and the loop can never leave
RECURSIVE WalkAttributes(_, _, _, _, _)
WalkAttributes(rec, s, n, attr_offset, attrs) ==
    LET next(st) ==
            IF st.status # "loop" THEN [kind |-> st.status, attrs |-> st.attrs]
            ELSE IF st.attr_offset = attr_offset THEN [kind |-> "hang", attrs |-> attrs]
            ELSE WalkAttributes(rec, s, n, st.attr_offset, st.attrs)
    IN  next(AttrIteration(rec, s, n, AttrLoop(attr_offset, attrs, "loop")))

\* from_bytes on n bytes that start with piece s and hold the record rec
MFTEntry_from_bytes(rec, s, n) ==
    LET walked(w) ==
            IF w.kind = "hang"
            THEN [kind |-> "hang", error |-> "", value |-> NoEntry]
            ELSE IF w.kind = "raise"
            THEN [kind |-> "err", error |-> "INVALID_MFT", value |-> NoEntry]
            ELSE [kind |-> "ok", error |-> "",
                  value |-> [reference |-> 0,
                             sequence |-> rec.sequence,
                             base_reference |-> rec.base_ref,
                             flags |-> rec.flags,
                             used_size |-> rec.used_size,
                             allocated_size |-> rec.alloc_size,
                             attributes |-> w.attrs]]
    IN  IF rec.sig # "FILE"
        THEN [kind |-> "err", error |-> "INVALID_MFT", value |-> NoEntry]
        ELSE walked(WalkAttributes(rec, s, n, rec.attrs_offset, <<>>))

\* a test that takes every record for one that is not in use
is_in_use_never(entry) == FALSE

is_in_use(entry) == entry.flags % 2 = 1
is_directory(entry) == (entry.flags \div 2) % 2 = 1
has_file_name(entry) ==
    \E i \in 1..Len(entry.attributes) : entry.attributes[i].type_id = FILE_NAME

(***************************************************************************)
(* NTFSVolume.read_mft_entry.                                              *)
(***************************************************************************)
\* entry numbers from FarEntry on lie beyond the end of every image
FarEntry == 65536

\* a decoder that leaves the reference as from_bytes set it
SetReference_skipped(entry, entry_number) == entry

\* entry.reference = entry_number
SetReference(entry, entry_number) == [entry EXCEPT !.reference = entry_number]

\* self.mft_cache[entry_number] = entry
CacheStore(cache, entry_number, entry) ==
    [k \in DOMAIN cache \cup {entry_number} |->
        IF k = entry_number THEN entry ELSE cache[k]]

\* the result and the volume afterwards; kind "hang": the call never returns
read_mft_entry(vol, entry_number) ==
    LET bs         == vol.boot_sector
        mft_offset == vol.partition_offset
                      + bs.mft_lcn * bs.sectors_per_cluster * bs.bytes_per_sector
        number     == IF entry_number > FarEntry THEN FarEntry ELSE entry_number
        offset     == mft_offset + number * MftEntrySize
        out(k, er, en, v) == [kind |-> k, error |-> er, entry |-> en, vol |-> v]
        stored(v, entry) ==
            out("ok", "", entry,
                [v EXCEPT !.mft_cache = CacheStore(@, entry_number, entry)])
        parsed(v, e) ==
            IF e.kind = "hang" THEN out("hang", "", NoEntry, v)
            ELSE IF e.kind = "err" THEN out("err", e.error, NoEntry, v)
            ELSE stored(v, SetReference(e.value, entry_number))
        read(r) ==
            IF Falsy(r.data)
            THEN out("err", "IO_ERROR", NoEntry, WithReader(vol, r.si))
            ELSE parsed(WithReader(vol, r.si),
                        MFTEntry_from_bytes(RecordAt(vol.image, r.data),
                                            Head(r.data.pieces), PLen(r.data.pieces)))
    IN  IF entry_number \in DOMAIN vol.mft_cache
        THEN out("ok", "", vol.mft_cache[entry_number], vol)
        ELSE IF ~bs.set
        THEN out("err", "INVALID_PARAMETER", NoEntry, vol)
        ELSE read(SplitImageFile_read(vol.split_image.si, vol.segs, offset, MftEntrySize))

(***************************************************************************)
(* NTFSFile (volume.py).  Names are sequences of character codes; <<>> is  *)
(* both None and the empty string, which the code treats alike.            *)
(***************************************************************************)
Min(a, b) == IF a < b THEN a ELSE b

Take(q, k) == SubSeq(q, 1, Min(k, Len(q)))

\* the name a resident $FILE_NAME attribute gives, by its content
ContentName(attr) ==
    LET n == PLen(attr.data.pieces)
        c == attr.data.content
    IN  IF attr.resident /\ n > 66
        THEN Take(c.name, Min(c.name_length, (n - 66) \div 2))
        ELSE <<>>

\* _parse_attributes: the loop over the attributes, from the i-th on
RECURSIVE ParseAttributes(_, _, _, _)
ParseAttributes(attrs, i, name, size) ==
    IF i > Len(attrs) THEN [name |-> name, size |-> size]
    ELSE LET attr == attrs[i]
         IN  IF attr.type_id = FILE_NAME
             THEN ParseAttributes(attrs, i + 1,
                      IF name # <<>> THEN name
                      ELSE IF attr.name # <<>> THEN attr.name
                      ELSE ContentName(attr),
                      size)
             ELSE IF attr.type_id = DATA /\ attr.name = <<>>
             THEN ParseAttributes(attrs, i + 1, name,
                      IF ~attr.resident THEN attr.data_size
                      ELSE PLen(attr.data.pieces))
             ELSE ParseAttributes(attrs, i + 1, name, size)

\* NTFSFile(mft_entry, volume)
NTFSFile(mft_entry) ==
    LET p == ParseAttributes(mft_entry.attributes, 1, <<>>, 0)
    IN  [mft_entry |-> mft_entry,
         name |-> p.name,
         size |-> IF is_directory(mft_entry) THEN 0 ELSE p.size,
         is_directory |-> is_directory(mft_entry)]

\* the first unnamed $DATA attribute: its position in the list, 0 if none
RECURSIVE FindData(_, _)
FindData(attrs, i) ==
    IF i > Len(attrs) THEN 0
    ELSE IF attrs[i].type_id = DATA /\ attrs[i].name = <<>> THEN i
    ELSE FindData(attrs, i + 1)

\* the loop over the runs in read_data
RECURSIVE ReadRuns(_, _, _, _)
ReadRuns(vol, runs, i, data) ==
    IF i > Len(runs) THEN [error |-> "", data |-> data, vol |-> vol]
    ELSE LET read(r) ==
                 IF r.error # "" THEN [error |-> r.error, data |-> <<>>, vol |-> r.vol]
                 ELSE ReadRuns(r.vol, runs, i + 1, PCat(data, r.data.pieces))
         IN  read(read_clusters(vol, runs[i].cluster, runs[i].length))

\* a loop that gives up at the first run that cannot be read
ReadRunsDeleted_aborting(vol, runs, i, data) == ReadRuns(vol, runs, i, data)

\* the loop over the runs in read_deleted_data
RECURSIVE ReadRunsDeleted(_, _, _, _)
ReadRunsDeleted(vol, runs, i, data) ==
    IF i > Len(runs) THEN [error |-> "", data |-> data, vol |-> vol]
    ELSE LET read(r) ==
                 ReadRunsDeleted(r.vol, runs, i + 1,
                     IF r.error = "" THEN PCat(data, r.data.pieces) ELSE data)
         IN  read(read_clusters(vol, runs[i].cluster, runs[i].length))

\* bytes(...): a byte string that may be empty
Bytes(ps) == [none |-> FALSE, pieces |-> ps]

\* NTFSFile.read_data: the result and the volume afterwards
read_data(vol, file) ==
    LET attrs == file.mft_entry.attributes
        i     == FindData(attrs, 1)
        read(r) ==
            IF r.error # ""
            THEN [error |-> r.error, data |-> NoneData, vol |-> r.vol]
            ELSE [error |-> "", data |-> Bytes(PTake(r.data, attrs[i].data_size)),
                  vol |-> r.vol]
    IN  IF i = 0 THEN [error |-> "", data |-> Bytes(<<>>), vol |-> vol]
        ELSE IF attrs[i].resident
        THEN [error |-> "", data |-> Bytes(attrs[i].data.pieces), vol |-> vol]
        ELSE read(ReadRuns(vol, attrs[i].data_runs, 1, <<>>))

\* NTFSFile.read_deleted_data: the result and the volume afterwards
read_deleted_data(vol, file) ==
    LET attrs == file.mft_entry.attributes
        i     == FindData(attrs, 1)
        read(r) == [error |-> "", data |-> Bytes(PTake(r.data, attrs[i].data_size)),
                    vol |-> r.vol]
    IN  IF i = 0 THEN [error |-> "", data |-> Bytes(<<>>), vol |-> vol]
        ELSE IF attrs[i].resident
        THEN [error |-> "", data |-> Bytes(attrs[i].data.pieces), vol |-> vol]
        ELSE read(ReadRunsDeleted(vol, attrs[i].data_runs, 1, <<>>))

(***************************************************************************)
(* Index entries as stored in the image, by their fields in the NTFS       *)
(* layout: file reference (index in the low 48 bits, seq in the top 16) at *)
(* +0, entry_length (u16) at +8, key_length (u16) at +10, flags at +12,    *)
(* then the $FILE_NAME key: name_length at +16+64, namespace at +16+65 and *)
(* the name at +16+66.                                                     *)
(***************************************************************************)
ZeroEntry == [index |-> 0, seq |-> 0, entry_length |-> 0, key_length |-> 0,
              flags |-> 0, name_length |-> 0, namespace |-> 0, name |-> <<>>]

ZeroBlock == [sig |-> "", size |-> 0, entries_offset |-> 0, entries |-> <<>>]

Dollar == 36
Dot == 46
Slash == 47

startswith_dollar(name) == Len(name) > 0 /\ name[1] = Dollar

\* the entry stored at offset o of an $INDEX_ROOT content
RootEntryAt(content, o) ==
    IF o \in DOMAIN content.entries THEN content.entries[o] ELSE ZeroEntry

\* u64 at +8 of an entry: entry_length, key_length and flags read as one number
\* (FarEntry and more when it exceeds every record number of the image)
U64At8(e) ==
    IF e.flags # 0 \/ e.key_length > 0 THEN FarEntry + e.entry_length
    ELSE e.entry_length

\* the while loop of _list_directory over the $INDEX_ROOT entries
RECURSIVE WalkIndexRoot(_, _, _, _)
WalkIndexRoot(vol, data, offset, files) ==
    LET n            == PLen(data.pieces)
        e            == RootEntryAt(data.content, offset)
        entry_length == e.index                       \* u32 at +0
        file_ref     == U64At8(e)                     \* u64 at +8
        fn_offset    == offset + 16
        filename     == e.name
        wanted       == /\ file_ref # 0
                        /\ fn_offset + 66 <= n
                        /\ fn_offset + 66 + e.name_length * 2 <= n
                        /\ filename \notin {<<Dot>>, <<Dot, Dot>>}
                        /\ ~(startswith_dollar(filename) /\ file_ref <= 11)
        view(r, f) ==
            WalkIndexRoot(r.vol, data, offset + entry_length,
                IF r.kind = "ok" /\ f.name # <<>> THEN Append(files, f) ELSE files)
        read(r) ==
            IF r.kind = "hang" THEN [kind |-> "hang", files |-> files, vol |-> r.vol]
            ELSE view(r, NTFSFile(r.entry))
    IN  IF ~(offset + 8 <= n) THEN [kind |-> "ok", files |-> files, vol |-> vol]
        ELSE IF entry_length = 0 THEN [kind |-> "ok", files |-> files, vol |-> vol]
        ELSE IF offset + entry_length > n
        THEN [kind |-> "ok", files |-> files, vol |-> vol]
        ELSE IF ~wanted THEN WalkIndexRoot(vol, data, offset + entry_length, files)
        ELSE read(read_mft_entry(vol, file_ref))

\* the INDX block that holds byte o of the data read and the entry stored there
BlockAt(img, d) ==
    IF d.pieces # <<>> /\ Start(d) \in DOMAIN img.indx THEN img.indx[Start(d)] ELSE ZeroBlock

BlockEntryAt(img, d, o) ==
    LET s    == Head(d.pieces)
        here == {p \in DOMAIN img.indx :
                    /\ p[1] = s.seg
                    /\ p[2] <= s.off + o
                    /\ s.off + o < p[2] + img.indx[p].size
                    /\ (s.off + o - p[2]) \in DOMAIN img.indx[p].entries}
    IN  IF o < s.len /\ here # {}
        THEN LET p == CHOOSE q \in here : TRUE IN img.indx[p].entries[s.off + o - p[2]]
        ELSE ZeroEntry

\* the while loop of _parse_index_allocation over the entries of one run
RECURSIVE WalkIndexBlock(_, _, _, _)
WalkIndexBlock(vol, d, offset, files) ==
    LET n            == PLen(d.pieces)
        e            == BlockEntryAt(vol.image, d, offset)
        fn_offset    == offset + 16
        filename     == e.name
        wanted       == /\ fn_offset + e.key_length <= n
                        /\ fn_offset + 65 < n              \* else IndexError, caught
                        /\ fn_offset + 66 + e.name_length * 2 <= n
                        /\ ~(startswith_dollar(filename) /\ e.seq = 0 /\ e.index <= 11)
        view(r, f) ==
            WalkIndexBlock(r.vol, d, offset + e.entry_length,
                IF r.kind = "ok" /\ f.name # <<>> THEN Append(files, f) ELSE files)
        read(r) ==
            IF r.kind = "hang" THEN [kind |-> "hang", files |-> files, vol |-> r.vol]
            ELSE view(r, NTFSFile(r.entry))
    IN  IF ~(offset + 16 < n) THEN [kind |-> "ok", files |-> files, vol |-> vol]
        ELSE IF (e.flags \div 2) % 2 = 1
        THEN [kind |-> "ok", files |-> files, vol |-> vol]
        ELSE IF e.entry_length = 0 THEN [kind |-> "ok", files |-> files, vol |-> vol]
        ELSE IF offset + e.entry_length > n
        THEN [kind |-> "ok", files |-> files, vol |-> vol]
        ELSE IF ~wanted THEN WalkIndexBlock(vol, d, offset + e.entry_length, files)
        ELSE read(read_mft_entry(vol, e.index))

\* _parse_index_allocation: the loop over the runs, from the i-th on
RECURSIVE parse_index_allocation(_, _, _, _)
parse_index_allocation(vol, runs, i, files) ==
    IF i > Len(runs) THEN [kind |-> "ok", files |-> files, vol |-> vol]
    ELSE LET walked(w) ==
                 IF w.kind = "hang" THEN w
                 ELSE parse_index_allocation(w.vol, runs, i + 1, w.files)
             block(r, b) ==
                 IF b.sig # "INDX" THEN parse_index_allocation(r.vol, runs, i + 1, files)
                 ELSE walked(WalkIndexBlock(r.vol, r.data, 24 + b.entries_offset, files))
             read(r) ==
                 IF r.error # "" THEN parse_index_allocation(r.vol, runs, i + 1, files)
                 ELSE block(r, BlockAt(vol.image, r.data))
         IN  read(read_clusters(vol, runs[i].cluster, runs[i].length))

\* the last attribute of the given type: its position in the list, 0 if none
RECURSIVE LastOfType(_, _, _)
LastOfType(attrs, t, i) ==
    IF i = 0 THEN 0 ELSE IF attrs[i].type_id = t THEN i ELSE LastOfType(attrs, t, i - 1)

\* _list_directory: the files listed and the volume afterwards
list_directory(vol, dir_entry) ==
    LET attrs == dir_entry.attributes
        ir    == LastOfType(attrs, INDEX_ROOT, Len(attrs))
        ia    == LastOfType(attrs, INDEX_ALLOCATION, Len(attrs))
        data  == attrs[ir].data
        n     == PLen(data.pieces)
        both(root, alloc) ==
            [kind |-> alloc.kind, files |-> root.files \o alloc.files, vol |-> alloc.vol]
        walked(root) ==
            IF root.kind = "hang" THEN root
            ELSE IF ia # 0 /\ ~attrs[ia].resident
            THEN both(root, parse_index_allocation(root.vol, attrs[ia].data_runs, 1, <<>>))
            ELSE root
    IN  IF ir # 0 /\ attrs[ir].resident /\ n < 32
        THEN [kind |-> "ok", files |-> <<>>, vol |-> vol]
        ELSE IF ir # 0 /\ attrs[ir].resident
        THEN walked(WalkIndexRoot(vol, data, 16 + data.content.entries_offset, <<>>))
        ELSE walked([kind |-> "ok", files |-> <<>>, vol |-> vol])

(***************************************************************************)
(* NTFSVolume.get_file_by_path, list_files, extract_file,                  *)
(* list_deleted_files.  Paths are sequences of character codes.            *)
(***************************************************************************)
RootEntry == 5
ScanLimit == 100000

\* str.lower() on the characters of the images: ASCII and U+00DF, which it keeps
LowerChar(c) == IF c >= 65 /\ c <= 90 THEN c + 32 ELSE c
Lower(name) == [i \in 1..Len(name) |-> LowerChar(name[i])]

\* [part for part in path.strip('/').split('/') if part]
RECURSIVE PathParts(_, _, _)
PathParts(path, cur, parts) ==
    LET flush == IF cur = <<>> THEN parts ELSE Append(parts, cur)
    IN  IF path = <<>> THEN flush
        ELSE IF Head(path) = Slash THEN PathParts(Tail(path), <<>>, flush)
        ELSE PathParts(Tail(path), Append(cur, Head(path)), parts)

\* a search that compares the names as they are written
RECURSIVE FindName_exact(_, _, _)
FindName_exact(files, part, i) ==
    IF i > Len(files) THEN 0
    ELSE IF files[i].name = part THEN i
    ELSE FindName_exact(files, part, i + 1)

\* the first file whose name matches the part: its position, 0 if none
RECURSIVE FindName(_, _, _)
FindName(files, part, i) ==
    IF i > Len(files) THEN 0
    ELSE IF Lower(files[i].name) = Lower(part) THEN i
    ELSE FindName(files, part, i + 1)

\* a resolution that reads the record it starts at, whatever the components
ResolveParts_root(vol, parts, current_entry_num) == read_mft_entry(vol, current_entry_num)

\* the loop of get_file_by_path over the path components, and its last read
RECURSIVE ResolveParts(_, _, _)
ResolveParts(vol, parts, current_entry_num) ==
    LET notfound(v) == [kind |-> "err", error |-> "NOT_FOUND", entry |-> NoEntry, vol |-> v]
        found(l, i) ==
            IF i = 0 THEN notfound(l.vol)
            ELSE ResolveParts(l.vol, Tail(parts), l.files[i].mft_entry.reference)
        listed(l) ==
            IF l.kind = "hang"
            THEN [kind |-> "hang", error |-> "", entry |-> NoEntry, vol |-> l.vol]
            ELSE found(l, FindName(l.files, Head(parts), 1))
        read(d) ==
            IF parts = <<>> THEN d
            ELSE IF d.kind # "ok" THEN d
            ELSE IF ~is_directory(d.entry) THEN notfound(d.vol)
            ELSE listed(list_directory(d.vol, d.entry))
    IN  read(read_mft_entry(vol, current_entry_num))

get_file_by_path(vol, path) ==
    IF ~vol.boot_sector.set
    THEN [kind |-> "err", error |-> "INVALID_PARAMETER", entry |-> NoEntry, vol |-> vol]
    ELSE IF path \in {<<Slash>>, <<Dot>>} THEN read_mft_entry(vol, RootEntry)
    ELSE ResolveParts(vol, PathParts(path, <<>>, <<>>), RootEntry)

\* list_files: kind, error, the files and the volume afterwards
list_files(vol, path) ==
    LET listed(l) == [kind |-> l.kind, error |-> "", files |-> l.files, vol |-> l.vol]
        dir(d) ==
            IF d.kind # "ok"
            THEN [kind |-> d.kind, error |-> d.error, files |-> <<>>, vol |-> d.vol]
            ELSE IF path # <<Slash>> /\ ~is_directory(d.entry)
            THEN [kind |-> "err", error |-> "NOT_FOUND", files |-> <<>>, vol |-> d.vol]
            ELSE listed(list_directory(d.vol, d.entry))
    IN  IF path = <<Slash>> THEN dir(read_mft_entry(vol, RootEntry))
        ELSE dir(get_file_by_path(vol, path))

\* extract_file up to the write of the output file
extract_file(vol, path) ==
    LET read(r) ==
            IF r.error # ""
            THEN [kind |-> "err", error |-> r.error, data |-> NoneData, vol |-> r.vol]
            ELSE [kind |-> "ok", error |-> "", data |-> r.data, vol |-> r.vol]
        view(g, f) ==
            IF f.is_directory
            THEN [kind |-> "err", error |-> "INVALID_PARAMETER", data |-> NoneData,
                  vol |-> g.vol]
            ELSE read(read_data(g.vol, f))
        got(g) ==
            IF g.kind # "ok"
            THEN [kind |-> g.kind, error |-> g.error, data |-> NoneData, vol |-> g.vol]
            ELSE view(g, NTFSFile(g.entry))
    IN  got(get_file_by_path(vol, path))

\* the first entry number whose read can no longer reach a segment file
ScanEnd(vol) ==
    LET bs    == vol.boot_sector
        mft   == vol.partition_offset
                 + bs.mft_lcn * bs.sectors_per_cluster * bs.bytes_per_sector
        limit == IF Len(vol.segs) = 0 THEN 0 ELSE Len(vol.split_image.si.files) * vol.segs[1]
        k     == IF limit <= mft THEN 0 ELSE (limit - mft + MftEntrySize - 1) \div MftEntrySize
    IN  IF ~bs.set THEN 0 ELSE Min(k, ScanLimit)

\* the loop of list_deleted_files over the entry numbers from mft_ref on;
\* reads from ScanEnd on fail and change nothing
RECURSIVE ScanDeleted(_, _, _, _)
ScanDeleted(vol, mft_ref, last, deleted_files) ==
    LET read(r) ==
            IF r.kind = "hang" THEN [kind |-> "hang", files |-> <<>>, vol |-> r.vol]
            ELSE ScanDeleted(r.vol, mft_ref + 1, last,
                     IF r.kind = "ok" /\ ~is_in_use(r.entry) /\ has_file_name(r.entry)
                     THEN Append(deleted_files, NTFSFile(r.entry))
                     ELSE deleted_files)
    IN  IF mft_ref >= last THEN [kind |-> "ok", files |-> deleted_files, vol |-> vol]
        ELSE read(read_mft_entry(vol, mft_ref))

list_deleted_files(vol) == ScanDeleted(vol, 0, ScanEnd(vol), <<>>)

(***************************************************************************)
(* The images the model is run on: one segment file holding an MBR, a boot *)
(* sector at LBA 1, the MFT from cluster 1 on, one INDX block and data     *)
(* clusters.  Characters: "a" = 97, "B" = 66, "x" = 120, "$I30".           *)
(***************************************************************************)
I30 == <<36, 73, 51, 48>>

FileNameAttr(name, ns) ==
    [ZeroAttr EXCEPT !.type = FILE_NAME, !.len = 96, !.content_offset = 24,
                     !.content_size = 66 + 2 * Len(name),
                     !.content = [ZeroContent EXCEPT !.name_length = Len(name),
                                                     !.namespace = ns, !.name = name]]

ResidentData(n) ==
    [ZeroAttr EXCEPT !.type = DATA, !.len = 24 + 8 * ((n + 7) \div 8),
                     !.content_offset = 24, !.content_size = n]

NonResidentData(size, runs) ==
    [ZeroAttr EXCEPT !.type = DATA, !.len = 72, !.nonres = 1, !.runs_offset = 64,
                     !.data_size = size, !.runs_at = 64, !.runs = runs]

LastEntry == [ZeroEntry EXCEPT !.entry_length = 24, !.flags = 3]

NameEntry(index, seq, name, ns) ==
    [ZeroEntry EXCEPT !.index = index, !.seq = seq, !.entry_length = 88,
                      !.key_length = 66 + 2 * Len(name), !.name_length = Len(name),
                      !.namespace = ns, !.name = name]

IndexRootAttr ==
    [ZeroAttr EXCEPT !.type = INDEX_ROOT, !.len = 88, !.name = I30,
                     !.content_offset = 32, !.content_size = 56,
                     !.content = [ZeroContent EXCEPT !.entries_offset = 16,
                                                     !.entries = (32 :> LastEntry)]]

IndexAllocationAttr(runs) ==
    [ZeroAttr EXCEPT !.type = INDEX_ALLOCATION, !.len = 80, !.nonres = 1, !.name = I30,
                     !.runs_offset = 72, !.data_size = 1024, !.runs_at = 72,
                     !.runs = runs]

EndAttr == [ZeroAttr EXCEPT !.type = AttrEnd]

\* the attributes laid out one after the other from offset o, then the end mark
RECURSIVE Layout(_, _)
Layout(attrs, o) ==
    IF attrs = <<>> THEN (o :> EndAttr)
    ELSE (o :> Head(attrs)) @@ Layout(Tail(attrs), o + Head(attrs).len)

RECURSIVE TotalLen(_)
TotalLen(attrs) == IF attrs = <<>> THEN 0 ELSE Head(attrs).len + TotalLen(Tail(attrs))

FirstAttr == 56

Record(flags, attrs) ==
    [ZeroRecord EXCEPT !.sig = "FILE", !.usn = 1, !.tails = <<1, 1>>, !.usa = <<0, 0>>,
                       !.sequence = 1, !.attrs_offset = FirstAttr, !.flags = flags,
                       !.used_size = FirstAttr + TotalLen(attrs) + 8,
                       !.alloc_size = MftEntrySize,
                       !.attrs = Layout(attrs, FirstAttr)]

\* geometry of the well-formed image
GoodBps == 512
GoodSpc == 2
GoodCluster == GoodBps * GoodSpc
BootLba == 1
MftLcn == 1
IndexLcn == 16
DataLcn == 17
ImageClusters == 20

ClusterPos(c) == <<1, BootLba * SectorSize + c * GoodCluster>>
RecordPos(k) == <<1, BootLba * SectorSize + MftLcn * GoodCluster + k * MftEntrySize>>

GoodMbr == [ptype |-> <<0, 7, 0, 0>>, lba |-> <<Lba(0), Lba(BootLba), Lba(0), Lba(0)>>]

GoodBoot == [ZeroBoot EXCEPT !.tag = "NTFS", !.bps = GoodBps, !.spc = GoodSpc,
                             !.total_sectors = ImageClusters * GoodSpc,
                             !.mft_lcn = MftLcn, !.mft_rec_size = 246,
                             !.idx_rec_size = 1]

RootRecord ==
    Record(3, <<FileNameAttr(<<Dot>>, 3), IndexRootAttr,
                IndexAllocationAttr(<<17, 1, IndexLcn, 0>>)>>)

MftRecord == Record(1, <<FileNameAttr(<<36, 77>>, 3), ResidentData(8)>>)

RootBlock ==
    [sig |-> "INDX", size |-> GoodCluster, entries_offset |-> 40,
     entries |-> (64 :> NameEntry(12, 1, <<97>>, 3))
                 @@ (152 :> NameEntry(13, 1, <<66>>, 3))
                 @@ (240 :> LastEntry)]

\* the image with record 12 = ra, record 13 = rb and record 14 = rc
MakeImage(mbr, boot, ra, rb, rc) ==
    [mbr  |-> (<<1, 0>> :> mbr),
     boot |-> (<<1, BootLba * SectorSize>> :> boot),
     mft  |-> (RecordPos(0) :> MftRecord) @@ (RecordPos(RootEntry) :> RootRecord)
              @@ (RecordPos(12) :> ra) @@ (RecordPos(13) :> rb)
              @@ (RecordPos(14) :> rc),
     indx |-> (ClusterPos(IndexLcn) :> RootBlock)]

ImageSize == BootLba * SectorSize + ImageClusters * GoodCluster

\* record 12: the file "a" with resident $DATA
FileA == Record(1, <<FileNameAttr(<<97>>, 3), ResidentData(10)>>)

\* record 13: the file "B" with non-resident $DATA
FileB(size, runs) == Record(1, <<FileNameAttr(<<66>>, 3), NonResidentData(size, runs)>>)

\* record 14: a deleted file "x"
FileX == Record(0, <<FileNameAttr(<<120>>, 3), ResidentData(4)>>)

MbrChoices ==
    { GoodMbr,
      [ptype |-> <<0, 0, 0, 0>>, lba |-> <<Lba(0), Lba(BootLba), Lba(0), Lba(0)>>],
      [ptype |-> <<131, 0, 0, 7>>, lba |-> <<Lba(BootLba), Lba(0), Lba(0), Lba(2)>>],
      [ptype |-> <<131, 7, 0, 7>>, lba |-> <<Lba(3), Lba(BootLba), Lba(0), Lba(2)>>],
      [ptype |-> <<0, 0, 7, 7>>, lba |-> <<Lba(0), Lba(0), Lba(256), Lba(BootLba)>>] }

BootChoices ==
    { GoodBoot,
      [GoodBoot EXCEPT !.tag = "MSDO"],
      [GoodBoot EXCEPT !.spc = 3],
      [GoodBoot EXCEPT !.spc = 0],
      [GoodBoot EXCEPT !.bps = 768],
      [GoodBoot EXCEPT !.bps = 0],
      [GoodBoot EXCEPT !.bps = 4096, !.spc = 32] }

GoodFileB == FileB(1500, <<17, 2, DataLcn, 0>>)

\* well-formed MBR and boot sector, records 12 and 13 varied
RecordImages ==
    { MakeImage(GoodMbr, GoodBoot, FileA, GoodFileB, FileX),
      MakeImage(GoodMbr, GoodBoot, [FileA EXCEPT !.alloc_size = 2048],
                FileB(3000, <<17, 2, DataLcn, 0>>), FileX),
      MakeImage(GoodMbr, GoodBoot, [FileA EXCEPT !.used_size = 1000, !.alloc_size = 512],
                FileB(1500, <<17, 1, DataLcn, 17, 1, 1, 0>>), FileX),
      MakeImage(GoodMbr, GoodBoot, [FileA EXCEPT !.tails = <<1, 2>>],
                FileB(1500, <<17, 1, DataLcn, 17, 1, 20, 0>>), FileX),
      MakeImage(GoodMbr, GoodBoot, [FileA EXCEPT !.sig = "BAAD"], GoodFileB, FileX) }

\* well-formed records, MBR and boot sector varied
MountImages ==
    { MakeImage(m, GoodBoot, FileA, GoodFileB, FileX) : m \in MbrChoices }
    \cup { MakeImage(GoodMbr, b, FileA, GoodFileB, FileX) : b \in BootChoices }

(***************************************************************************)
(* An image with a populated directory tree.  The root index block lists   *)
(* record 0 ("$M"), record 12 (DOS name "A~" stored before the WIN32 name  *)
(* "ab"), record 13 ("B"), record 14 ("b") and the directory 9 ("d"),      *)
(* whose index block in the last cluster lists record 10, named with the   *)
(* one letter U+00DF (223, sharp s).  Records 7, 8 and 11 are not in use.  *)
(***************************************************************************)
SubLcn == 19

\* record 9: the directory "d"
SubDir ==
    Record(3, <<FileNameAttr(<<100>>, 3), IndexRootAttr,
                IndexAllocationAttr(<<17, 1, SubLcn, 0>>)>>)

\* record 10: a file with one run of one cluster with LCN offset -1
SparseFile == Record(1, <<FileNameAttr(<<223>>, 3), NonResidentData(1024, <<17, 1, 255, 0>>)>>)

\* record 12: a file with a DOS name followed by its WIN32 name
TwoNames ==
    Record(1, <<FileNameAttr(<<65, 126>>, 2), FileNameAttr(<<97, 98>>, 1),
                ResidentData(10)>>)

\* record 14: the file "b", used_size ending inside its $DATA attribute
CutFile == [Record(1, <<FileNameAttr(<<98>>, 3), ResidentData(10)>>) EXCEPT !.used_size = 160]

\* record 7: not in use, without $FILE_NAME; record 11: not in use, "$X"
Nameless == Record(0, <<ResidentData(4)>>)
DeletedSystem == Record(0, <<FileNameAttr(<<36, 88>>, 3), ResidentData(4)>>)

ListBlock ==
    [sig |-> "INDX", size |-> GoodCluster, entries_offset |-> 40,
     entries |-> (64 :> NameEntry(0, 1, <<36, 77>>, 3))
                 @@ (152 :> NameEntry(12, 1, <<97, 98>>, 1))
                 @@ (240 :> NameEntry(13, 1, <<66>>, 3))
                 @@ (328 :> NameEntry(14, 1, <<98>>, 3))
                 @@ (416 :> NameEntry(9, 1, <<100>>, 3))
                 @@ (504 :> LastEntry)]

SubBlock ==
    [sig |-> "INDX", size |-> GoodCluster, entries_offset |-> 40,
     entries |-> (64 :> NameEntry(10, 1, <<223>>, 3)) @@ (152 :> LastEntry)]

ListImage ==
    [mbr  |-> (<<1, 0>> :> GoodMbr),
     boot |-> (<<1, BootLba * SectorSize>> :> GoodBoot),
     mft  |-> (RecordPos(0) :> MftRecord) @@ (RecordPos(RootEntry) :> RootRecord)
              @@ (RecordPos(6) :> [FileA EXCEPT !.sig = "BAAD"])
              @@ (RecordPos(7) :> Nameless) @@ (RecordPos(8) :> FileX)
              @@ (RecordPos(9) :> SubDir) @@ (RecordPos(10) :> SparseFile)
              @@ (RecordPos(11) :> DeletedSystem) @@ (RecordPos(12) :> TwoNames)
              @@ (RecordPos(13) :> GoodFileB) @@ (RecordPos(14) :> CutFile),
     indx |-> (ClusterPos(IndexLcn) :> ListBlock) @@ (ClusterPos(SubLcn) :> SubBlock)]

ListImages == {ListImage}

(***************************************************************************)
(* An image whose directories use every part of an index.  The root keeps  *)
(* one entry in its $INDEX_ROOT (record 8, "r") and has an                 *)
(* $INDEX_ALLOCATION run of two clusters, one INDX block each: the first   *)
(* lists record 12 twice (DOS name "A~", WIN32 name "ab"), record 13 ("B") *)
(* and the directory 9 ("d"); the second lists record 14 ("b").  The index *)
(* block of "d" lists "d" itself under the name "." and record 10 ("f").   *)
(* Record 12 holds a named $DATA and two unnamed ones, record 13 a named   *)
(* one before its unnamed one, record 10 a named one only.                 *)
(***************************************************************************)
NamedData(name, n) == [ResidentData(n) EXCEPT !.name = name]

IndexRootWith(entry) ==
    [IndexRootAttr EXCEPT !.len = 176, !.content_size = 144,
                          !.content.entries = (32 :> entry) @@ (120 :> LastEntry)]

IndexedRoot ==
    Record(3, <<FileNameAttr(<<Dot>>, 3), IndexRootWith(NameEntry(8, 1, <<114>>, 3)),
                IndexAllocationAttr(<<17, 2, IndexLcn, 0>>)>>)

RootFile == Record(1, <<FileNameAttr(<<114>>, 3), ResidentData(4)>>)

StreamsOnly == Record(1, <<FileNameAttr(<<102>>, 3), NamedData(<<115>>, 4)>>)

TwoData ==
    Record(1, <<FileNameAttr(<<65, 126>>, 2), FileNameAttr(<<97, 98>>, 1),
                NamedData(<<115>>, 4), ResidentData(10), ResidentData(20)>>)

StreamFirst == Record(1, <<FileNameAttr(<<66>>, 3), NamedData(<<115>>, 4), ResidentData(6)>>)

FirstBlock ==
    [sig |-> "INDX", size |-> GoodCluster, entries_offset |-> 40,
     entries |-> (64 :> NameEntry(12, 1, <<65, 126>>, 2))
                 @@ (152 :> NameEntry(12, 1, <<97, 98>>, 1))
                 @@ (240 :> NameEntry(13, 1, <<66>>, 3))
                 @@ (328 :> NameEntry(9, 1, <<100>>, 3))
                 @@ (416 :> LastEntry)]

SecondBlock ==
    [sig |-> "INDX", size |-> GoodCluster, entries_offset |-> 40,
     entries |-> (64 :> NameEntry(14, 1, <<98>>, 3)) @@ (152 :> LastEntry)]

SelfBlock ==
    [sig |-> "INDX", size |-> GoodCluster, entries_offset |-> 40,
     entries |-> (64 :> NameEntry(9, 1, <<Dot>>, 3))
                 @@ (152 :> NameEntry(10, 1, <<102>>, 3))
                 @@ (240 :> LastEntry)]

IndexImage ==
    [mbr  |-> (<<1, 0>> :> GoodMbr),
     boot |-> (<<1, BootLba * SectorSize>> :> GoodBoot),
     mft  |-> (RecordPos(0) :> MftRecord) @@ (RecordPos(RootEntry) :> IndexedRoot)
              @@ (RecordPos(8) :> RootFile) @@ (RecordPos(9) :> SubDir)
              @@ (RecordPos(10) :> StreamsOnly) @@ (RecordPos(12) :> TwoData)
              @@ (RecordPos(13) :> StreamFirst)
              @@ (RecordPos(14) :> Record(1, <<FileNameAttr(<<98>>, 3), ResidentData(10)>>)),
     indx |-> (ClusterPos(IndexLcn) :> FirstBlock)
              @@ (ClusterPos(IndexLcn + 1) :> SecondBlock)
              @@ (ClusterPos(SubLcn) :> SelfBlock)]

IndexImages == {IndexImage}

(***************************************************************************)
(* The volume: NTFSVolume(image_path) and the calls a client makes on it.  *)
(***************************************************************************)
MaxCount == 1
MaxEntry == 13

\* a call that never returns leaves the client nothing more to do
NeverReturns == "NEVER_RETURNS"
Running == result.error # NeverReturns

\* the arguments the client passes, by the image it works on
ListPaths ==
    { <<Slash>>, <<>>, <<Dot>>, <<Slash, 66>>, <<Slash, 98>>,
      <<Slash, 100>>, <<Slash, 68>>, <<Slash, 97, 126>>,
      <<Slash, 100, Slash, 223>>, <<Slash, 100, Slash, 83, 83>>,
      <<Slash, 100, Slash, 122>>, <<Slash, 66, Slash, 223>> }

IndexPaths ==
    { <<Slash>>, <<Slash, 100>>, <<Slash, 97, 98>>, <<Slash, 66>>, <<Slash, 97>>,
      <<Slash, 100, Slash, 102>>, <<Slash, 100, Slash, 100>> }

ClusterArgs ==
    IF image \in ListImages \cup IndexImages THEN {0 - 1} ELSE {0, DataLcn, ImageClusters}
CountArgs == 1..MaxCount
EntryArgs ==
    IF image \in ListImages \cup IndexImages THEN {RootEntry}
    ELSE {RootEntry} \cup 12..MaxEntry
Paths ==
    IF image \in ListImages THEN ListPaths
    ELSE IF image \in IndexImages THEN IndexPaths
    ELSE { <<Slash>>, <<>>, <<Slash, 97>>, <<Slash, 66>>, <<Slash, 122>> }

Range(q) == {q[i] : i \in 1..Len(q)}

\* NTFSVolume(image_path) on an image made of the segment files sg
InitVolume(sg, img) ==
    /\ segs = sg
    /\ image = img
    /\ split_image = [set |-> FALSE, si |-> SplitImageFile_init]
    /\ boot_sector = NoBoot
    /\ partition_offset = NoOffset
    /\ mft_cache = <<>>
    /\ views = {}
    /\ result = Ok("init", <<>>)
    /\ lifecycle = "Unmounted"

Init == \E img \in RecordImages : InitVolume(<<ImageSize>>, img)

InitMount == \E sg \in {<<>>, <<ImageSize>>}, img \in MountImages : InitVolume(sg, img)

\* the fields of the volume a read leaves changed
Commit(v) ==
    /\ split_image' = v.split_image
    /\ mft_cache' = v.mft_cache
    /\ UNCHANGED <<segs, image, boot_sector, partition_offset, lifecycle>>

ReadClusters ==
    \E c \in ClusterArgs, n \in CountArgs :
        \E r \in {read_clusters(Volume, c, n)} :
            /\ Running
            /\ result' = IF r.error = "" THEN OkData("read_clusters", <<c, n>>, r.data)
                         ELSE Err("read_clusters", <<c, n>>, r.error)
            /\ Commit(r.vol)
            /\ UNCHANGED views

ReadMftEntry ==
    \E k \in EntryArgs :
        \E r \in {read_mft_entry(Volume, k)} :
            /\ Running
            /\ result' = IF r.kind = "ok" THEN OkEntry("read_mft_entry", k, r.entry)
                         ELSE IF r.kind = "hang" THEN Err("read_mft_entry", k, NeverReturns)
                         ELSE Err("read_mft_entry", k, r.error)
            /\ Commit(r.vol)
            /\ UNCHANGED views

GetFileByPath ==
    \E path \in Paths :
        \E r \in {get_file_by_path(Volume, path)} :
            /\ Running
            /\ result' = IF r.kind = "ok" THEN OkEntry("get_file_by_path", path, r.entry)
                         ELSE IF r.kind = "hang" THEN Err("get_file_by_path", path, NeverReturns)
                         ELSE Err("get_file_by_path", path, r.error)
            /\ Commit(r.vol)
            /\ UNCHANGED views

ListFiles ==
    \E path \in Paths :
        \E r \in {list_files(Volume, path)} :
            /\ Running
            /\ result' = IF r.kind = "ok" THEN OkFiles("list_files", path, r.files)
                         ELSE IF r.kind = "hang" THEN Err("list_files", path, NeverReturns)
                         ELSE Err("list_files", path, r.error)
            /\ Commit(r.vol)
            /\ views' = IF r.kind = "ok" THEN views \cup Range(r.files) ELSE views

ListDeletedFiles ==
    \E r \in {list_deleted_files(Volume)} :
        /\ Running
        /\ result' = IF r.kind = "ok" THEN OkFiles("list_deleted_files", <<>>, r.files)
                     ELSE Err("list_deleted_files", <<>>, NeverReturns)
        /\ Commit(r.vol)
        /\ views' = IF r.kind = "ok" THEN views \cup Range(r.files) ELSE views

ExtractFile ==
    \E path \in Paths :
        \E r \in {extract_file(Volume, path)} :
            /\ Running
            /\ result' = IF r.kind = "ok" THEN OkData("extract_file", path, r.data)
                         ELSE IF r.kind = "hang" THEN Err("extract_file", path, NeverReturns)
                         ELSE Err("extract_file", path, r.error)
            /\ Commit(r.vol)
            /\ UNCHANGED views

ReadData ==
    \E f \in views :
        \E r \in {read_data(Volume, f)} :
            /\ Running
            /\ result' = IF r.error = "" THEN OkData("read_data", f, r.data)
                         ELSE Err("read_data", f, r.error)
            /\ Commit(r.vol)
            /\ UNCHANGED views

ReadDeletedData ==
    \E f \in views :
        \E r \in {read_deleted_data(Volume, f)} :
            /\ Running
            /\ result' = OkData("read_deleted_data", f, r.data)
            /\ Commit(r.vol)
            /\ UNCHANGED views

Next ==
    \/ Mount
    \/ Close
    \/ ReadClusters
    \/ ReadMftEntry
    \/ GetFileByPath
    \/ ListFiles
    \/ ListDeletedFiles
    \/ ExtractFile
    \/ ReadData
    \/ ReadDeletedData

Spec == Init /\ [][Next]_vars

SpecMount == InitMount /\ [][Next]_vars

InitList == \E img \in ListImages : InitVolume(<<ImageSize>>, img)

SpecList == InitList /\ [][Next]_vars

InitIndex == \E img \in IndexImages : InitVolume(<<ImageSize>>, img)

SpecIndex == InitIndex /\ [][Next]_vars

(***************************************************************************)
(* The segment reader on its own: SplitImageFile(base_path), open() once   *)
(* as mount() does, then any reads and close().                            *)
(***************************************************************************)
EmptyImage == [mbr |-> <<>>, boot |-> <<>>, mft |-> <<>>, indx |-> <<>>]

SegLists == UNION {[1..k -> 0..MaxSegLen] : k \in 1..MaxSegs}

InitSplit ==
    /\ segs \in SegLists
    /\ image = EmptyImage
    /\ split_image = [set |-> TRUE, si |-> SplitImageFile_init]
    /\ boot_sector = NoBoot
    /\ partition_offset = NoOffset
    /\ mft_cache = <<>>
    /\ views = {}
    /\ result = Ok("init", <<>>)
    /\ lifecycle = "Unmounted"

Untouched == UNCHANGED <<segs, image, boot_sector, partition_offset, mft_cache, views,
                         lifecycle>>

SplitOpen ==
    LET o == SplitImageFile_open(split_image.si, segs)
    IN  /\ split_image.si.files = <<>>
        /\ split_image' = [split_image EXCEPT !.si = o.si]
        /\ result' = Ok("open", o.ok)
        /\ Untouched

SplitRead ==
    \E o \in 0..(MaxSegs * MaxSegLen), n \in 0..MaxReadLen :
        \E r \in {SplitImageFile_read(split_image.si, segs, o, n)} :
            /\ split_image' = [split_image EXCEPT !.si = r.si]
            /\ result' = OkData("read", <<o, n>>, r.data)
            /\ Untouched

SplitClose ==
    /\ split_image' = [split_image EXCEPT !.si = SplitImageFile_close(@)]
    /\ result' = Ok("close", <<>>)
    /\ Untouched

NextSplit == SplitOpen \/ SplitRead \/ SplitClose

SpecSplit == InitSplit /\ [][NextSplit]_vars

(***************************************************************************)
(* The data-run decoder on its own: from_raw_data on a non-resident        *)
(* attribute whose run list is made of up to MaxRuns descriptors, one pass *)
(* through its while loop at a time.  Here result holds the call: the raw  *)
(* attribute (arg), the length n of the bytes handed in, the state of the  *)
(* loop and, once the loop is left, the attribute returned.                *)
(***************************************************************************)
MaxRuns == 3

\* descriptors: header (off_size in the high nibble, len_size in the low
\* one), the length bytes, the offset bytes
RunChoices ==
    { <<17, 2, 17>>,           \* length 2, delta +17
      <<17, 1, 255>>,          \* length 1, delta -1
      <<33, 1, 0, 1>>,         \* length 1, delta +256
      <<18, 1, 1, 3>>,         \* length 257, delta +3
      <<33, 3, 128, 255>>,     \* length 3, delta -128
      <<1, 3>>,                \* off_size 0
      <<16, 4>>,               \* len_size 0
      <<34, 1>>,               \* two length and two offset bytes, one present
      <<0>> }                  \* the terminator

RECURSIVE RunLists(_)
RunLists(k) ==
    IF k = 0 THEN {<<>>}
    ELSE RunLists(k - 1) \cup {l \o d : l \in RunLists(k - 1), d \in RunChoices}

\* the attribute records handed to from_raw_data: the run list at 64, the
\* bytes ending with the list or with one more byte (0x00), runs_offset at
\* the list or beyond the end
RunInputs ==
    { [NonResidentData(1500, l) EXCEPT !.len = 64 + Len(l) + t, !.runs_offset = ro] :
        l \in RunLists(MaxRuns), t \in {0, 1}, ro \in {64, 128} }

InitRuns ==
    \E raw \in RunInputs :
        /\ segs = <<>>
        /\ image = EmptyImage
        /\ split_image = [set |-> FALSE, si |-> SplitImageFile_init]
        /\ boot_sector = NoBoot
        /\ partition_offset = NoOffset
        /\ mft_cache = <<>>
        /\ views = {}
        /\ lifecycle = "Unmounted"
        /\ result = [op |-> "from_raw_data", arg |-> raw, n |-> raw.len,
                     loop |-> RunLoop(Field(raw.runs_offset, 32, 2, raw.len), 0, <<>>,
                                      "loop"),
                     attr |-> from_raw_data(ZeroAttr, <<>>, TRUE, <<>>, 0)]

\* one pass through the loop; the pass that leaves it ends the call
RunStep ==
    \E st \in {RunIteration(result.arg, result.n, result.loop)} :
        /\ result.op = "from_raw_data"
        /\ result.loop.status = "loop"
        /\ result' = [result EXCEPT
                         !.loop = st,
                         !.attr = IF st.status = "loop" THEN @
                                  ELSE RunsAttribute(result.arg, result.arg.name, result.n,
                                           [runs |-> st.runs,
                                            raised |-> st.status = "raised"])]
        /\ UNCHANGED <<segs, image, split_image, boot_sector, partition_offset,
                       mft_cache, views, lifecycle>>

NextRuns == RunStep

SpecRuns == InitRuns /\ [][NextRuns]_vars

\* the call runs on until it returns: nothing else can stop the loop
FairSpecRuns == SpecRuns /\ WF_vars(NextRuns)

(***************************************************************************)
(* The record decoder on its own: from_bytes on a 1024-byte record that    *)
(* begins with FILE and holds up to MaxAttrs attributes, one pass through  *)
(* its while loop at a time.  Here result holds the call: the record       *)
(* (arg), the state of the loop and, once the loop is left, what from_bytes *)
(* returns.  The list the loop builds is capped at MaxWalk attributes.     *)
(***************************************************************************)
MaxAttrs == 2
MaxWalk == 4

WalkChoices ==
    { FileNameAttr(<<97>>, 3),
      ResidentData(10),
      NonResidentData(1500, <<17, 2, DataLcn, 0>>),
      [ZeroAttr EXCEPT !.type = DATA],                 \* length field 0
      [ResidentData(10) EXCEPT !.len = 1000] }         \* length beyond the record

RECURSIVE WalkLists(_)
WalkLists(k) ==
    IF k = 0 THEN {<<>>}
    ELSE WalkLists(k - 1) \cup {Append(l, a) : l \in WalkLists(k - 1), a \in WalkChoices}

\* used_size as the attributes need it, the whole record, and inside the
\* first attribute
WalkInputs ==
    { [Record(1, l) EXCEPT !.used_size = IF u = 0 THEN @ ELSE u] :
        l \in WalkLists(MaxAttrs), u \in {0, MftEntrySize, FirstAttr + 8} }

InitWalk ==
    \E rec \in WalkInputs :
        /\ segs = <<>>
        /\ image = EmptyImage
        /\ split_image = [set |-> FALSE, si |-> SplitImageFile_init]
        /\ boot_sector = NoBoot
        /\ partition_offset = NoOffset
        /\ mft_cache = <<>>
        /\ views = {}
        /\ lifecycle = "Unmounted"
        /\ result = [op |-> "from_bytes", arg |-> rec,
                     loop |-> AttrLoop(rec.attrs_offset, <<>>, "loop"),
                     value |-> [kind |-> "", error |-> "", value |-> NoEntry]]

\* one pass through the loop; the pass that leaves it ends the call
WalkStep ==
    \E st \in {AttrIteration(result.arg, Piece(1, 0, MftEntrySize), MftEntrySize,
                              result.loop)} :
        /\ result.op = "from_bytes"
        /\ result.loop.status = "loop"
        /\ Len(result.loop.attrs) < MaxWalk
        /\ result' = [result EXCEPT
                         !.loop = st,
                         !.value = IF st.status = "loop" THEN @
                                   ELSE MFTEntry_from_bytes(result.arg,
                                            Piece(1, 0, MftEntrySize), MftEntrySize)]
        /\ UNCHANGED <<segs, image, split_image, boot_sector, partition_offset,
                       mft_cache, views, lifecycle>>

NextWalk == WalkStep

SpecWalk == InitWalk /\ [][NextWalk]_vars

(***************************************************************************)
(* search_files and extract_all_files on a mounted volume, one step of     *)
(* their recursion at a time.  Here result holds the call: its stack of    *)
(* frames of search_dir or extract_all_files (path, output path, record    *)
(* listed, files, position i of the for loop; listed = list_files has      *)
(* returned), the results or the files written, and what is returned.      *)
(* The stack is capped at MaxDepth frames.                                 *)
(***************************************************************************)
MaxDepth == 4

\* the index image without the "." entry in the block of "d"
TreeImage ==
    [IndexImage EXCEPT !.indx[ClusterPos(SubLcn)].entries =
        (64 :> NameEntry(10, 1, <<102>>, 3)) @@ (152 :> LastEntry)]

SearchImages == {IndexImage, TreeImage}

\* the patterns searched for: "d", "B", "F", "~", "" (which every name contains)
Patterns == {<<100>>, <<66>>, <<70>>, <<126>>, <<>>}

OutDir == <<111>>

\* os.path.join(path, name)
join(path, name) ==
    IF name # <<>> /\ name[1] = Slash THEN name
    ELSE IF path = <<>> \/ path[Len(path)] = Slash THEN path \o name
    ELSE path \o <<Slash>> \o name

\* pattern.lower() in name.lower()
Contains(name, pattern) ==
    \E k \in 0..Len(name) :
        /\ k + Len(pattern) <= Len(name)
        /\ SubSeq(Lower(name), k + 1, k + Len(pattern)) = Lower(pattern)

Frame(path, out, ref) ==
    [path |-> path, out |-> out, ref |-> ref, listed |-> FALSE, files |-> <<>>, i |-> 1]

InitSearch ==
    \E img \in SearchImages, op \in {"search_files", "extract_all_files"},
       pattern \in Patterns :
        \E m \in {MountOutcome(img, <<ImageSize>>, NoBoot, NoOffset)} :
            /\ op = "extract_all_files" => pattern = <<>>
            /\ segs = <<ImageSize>>
            /\ image = img
            /\ split_image = [set |-> TRUE, si |-> m.si]
            /\ boot_sector = m.boot
            /\ partition_offset = m.off
            /\ mft_cache = <<>>
            /\ views = {}
            /\ lifecycle = "Mounted"
            /\ result = [op |-> op, pattern |-> pattern,
                         stack |-> <<Frame(<<Slash>>, OutDir, RootEntry)>>,
                         results |-> <<>>, written |-> <<>>,
                         returned |-> FALSE, error |-> ""]

\* the frame of the call that is running
Top == IF result.stack = <<>> THEN Frame(<<>>, <<>>, RootEntry)
       ELSE result.stack[Len(result.stack)]

\* the call at the top of the stack returns to its caller
Return(error) ==
    [result EXCEPT !.stack = SubSeq(@, 1, Len(@) - 1),
                   !.returned = Len(result.stack) = 1,
                   !.error = IF Len(result.stack) = 1 THEN error ELSE @]

\* list_files(path) at the start of search_dir and of extract_all_files
ListStep ==
    \E l \in {list_files(Volume, Top.path)} :
        /\ result.op \in {"search_files", "extract_all_files"}
        /\ ~result.returned
        /\ ~Top.listed
        /\ l.kind # "hang"
        /\ result' = IF l.kind = "ok"
                     THEN [result EXCEPT !.stack[Len(result.stack)].listed = TRUE,
                                         !.stack[Len(result.stack)].files = l.files]
                     ELSE Return(IF result.op = "search_files" THEN "" ELSE l.error)
        /\ Commit(l.vol)
        /\ UNCHANGED views

\* one pass through the for loop of search_dir, or its return
SearchStep ==
    \E top \in {Top} :
        /\ result.op = "search_files"
        /\ ~result.returned
        /\ top.listed
        /\ IF top.i > Len(top.files)
           THEN result' = Return("")
           ELSE \E file \in {top.files[top.i]} :
                  \E full_path \in {join(top.path, file.name)} :
                    /\ file.is_directory => Len(result.stack) < MaxDepth
                    /\ result' =
                         [result EXCEPT
                            !.results = IF Contains(file.name, result.pattern)
                                        THEN Append(@, full_path) ELSE @,
                            !.stack = IF file.is_directory
                                      THEN Append([@ EXCEPT ![Len(@)].i = top.i + 1],
                                                  Frame(full_path, <<>>,
                                                        file.mft_entry.reference))
                                      ELSE [@ EXCEPT ![Len(@)].i = top.i + 1]]
        /\ UNCHANGED <<segs, image, split_image, boot_sector, partition_offset,
                       mft_cache, views, lifecycle>>

\* one pass through the for loop of extract_all_files, or its return
ExtractAllStep ==
    \E top \in {Top} :
        /\ result.op = "extract_all_files"
        /\ ~result.returned
        /\ top.listed
        /\ IF top.i > Len(top.files)
           THEN result' = Return("") /\ Commit(Volume)
           ELSE \E file \in {top.files[top.i]} :
                  \E file_path \in {join(top.out, file.name)} :
                    IF file.is_directory
                    THEN /\ Len(result.stack) < MaxDepth
                         /\ result' =
                              [result EXCEPT
                                 !.stack = Append([@ EXCEPT ![Len(@)].i = top.i + 1],
                                                  Frame(join(top.path, file.name), file_path,
                                                        file.mft_entry.reference))]
                         /\ Commit(Volume)
                    ELSE \E r \in {extract_file(Volume, join(top.path, file.name))} :
                           /\ r.kind # "hang"
                           /\ result' =
                                [result EXCEPT
                                   !.written = IF r.kind = "ok"
                                               THEN Append(@, <<file_path, r.data>>) ELSE @,
                                   !.stack[Len(result.stack)].i = top.i + 1]
                           /\ Commit(r.vol)
        /\ UNCHANGED views

NextSearch == ListStep \/ SearchStep \/ ExtractAllStep

SpecSearch == InitSearch /\ [][NextSearch]_vars

(***************************************************************************)
(* Properties.                                                             *)
(***************************************************************************)
VolumeReads == {"read_clusters", "read_mft_entry", "get_file_by_path", "list_files"}

\* C1: read_clusters, read_mft_entry, get_file_by_path and list_files return
\* an error whenever the volume has never been mounted successfully or has
\* been closed, read_mft_entry of a record cached before the close included.
C1_ReadsRejected ==
    (result.op \in VolumeReads /\ lifecycle # "Mounted") => is_err(result)

\* C2: after close(), read_data and read_deleted_data on a File View obtained
\* before the close return an IO error and never bytes.
C2_StreamReadsAfterClose ==
    (result.op \in {"read_data", "read_deleted_data"} /\ lifecycle = "Closed")
        => result.error = "IO_ERROR"

\* the record stored in the image for entry number k, and whether it decodes
StoredRecord(k) ==
    IF RecordPos(k) \in DOMAIN image.mft THEN image.mft[RecordPos(k)] ELSE ZeroRecord

Decodes(k) ==
    MFTEntry_from_bytes(StoredRecord(k), Piece(1, RecordPos(k)[2], MftEntrySize),
                        MftEntrySize).kind = "ok"

\* C3: the MFT cache gains an entry for k only when record k decodes, and
\* that entry has reference = k; a failed read_mft_entry leaves the cache
\* unchanged; a cached entry is never replaced or removed, and a successful
\* read_mft_entry(k) returns the cached record.
C3_Step ==
    /\ \A k \in DOMAIN mft_cache :
          k \in DOMAIN mft_cache' /\ mft_cache'[k] = mft_cache[k]
    /\ \A k \in DOMAIN mft_cache' \ DOMAIN mft_cache :
          mft_cache'[k].reference = k /\ Decodes(k)
    /\ (result'.op = "read_mft_entry" /\ is_err(result')) => mft_cache' = mft_cache
    /\ (result'.op = "read_mft_entry" /\ is_ok(result')) =>
          /\ result'.arg \in DOMAIN mft_cache'
          /\ result'.entry = mft_cache'[result'.arg]

C3_CacheWriteOnce == [][C3_Step]_vars

C3_Witness ==
    /\ lifecycle = "Mounted"
    /\ result.op = "read_mft_entry"
    /\ is_ok(result)
    /\ result.entry.reference = result.arg
    /\ Cardinality(DOMAIN mft_cache) >= 2

\* bytes [o, o + n) of the concatenation of the segments from the i-th on
RECURSIVE ConcatRange(_, _, _, _)
ConcatRange(sg, i, o, n) ==
    IF i > Len(sg) \/ n <= 0 THEN <<>>
    ELSE IF o >= sg[i] THEN ConcatRange(sg, i + 1, o - sg[i], n)
    ELSE <<Piece(i, o, Min(n, sg[i] - o))>>
         \o ConcatRange(sg, i + 1, 0, n - Min(n, sg[i] - o))

AllOpen ==
    /\ Len(split_image.si.files) = Len(segs)
    /\ \A i \in 1..Len(segs) : ~split_image.si.files[i].closed

\* C4: with every segment open, read(o, n) returns exactly the bytes
\* [o, min(o + n, total length)) of the concatenation of the segments,
\* whatever their lengths (no bytes at all only when o is at or past the end).
C4_ReadIsConcatenation ==
    (result.op = "read" /\ AllOpen) =>
        result.data.pieces = ConcatRange(segs, 1, result.arg[1], result.arg[2])

\* what the image holds where mount() looks
StoredMbr == IF <<1, 0>> \in DOMAIN image.mbr THEN image.mbr[<<1, 0>>] ELSE ZeroMbr

NoNtfsPartition == \A i \in 1..4 : StoredMbr.ptype[i] # NtfsPartitionType

StoredBootTag ==
    IF <<1, partition_offset>> \in DOMAIN image.boot
    THEN image.boot[<<1, partition_offset>>].tag ELSE ""

\* C5: mount() of a readable image fails with INVALID_BOOT_SECTOR when no MBR
\* partition entry has type 0x07, and when the sector at partition_offset does
\* not carry the NTFS tag; the boot sector is not populated.
C5_InvalidBootSector ==
    (/\ result.op = "mount"
     /\ segs # <<>>
     /\ NoNtfsPartition \/ (partition_offset # NoOffset /\ StoredBootTag # "NTFS"))
        => (result.error = "INVALID_BOOT_SECTOR" /\ ~boot_sector.set)

RECURSIVE IsPowerOfTwo(_)
IsPowerOfTwo(n) == n = 1 \/ (n > 1 /\ n % 2 = 0 /\ IsPowerOfTwo(n \div 2))

\* C6: whenever mount() has succeeded, bytes_per_sector is one of 256, 512,
\* 1024, 2048, 4096, sectors_per_cluster is a power of two and a cluster has
\* at most 65536 bytes.
C6_Geometry ==
    boot_sector.set =>
        /\ boot_sector.bytes_per_sector \in {256, 512, 1024, 2048, 4096}
        /\ IsPowerOfTwo(boot_sector.sectors_per_cluster)
        /\ boot_sector.bytes_per_sector * boot_sector.sectors_per_cluster <= 65536

Geometry ==
    <<boot_sector.bytes_per_sector, boot_sector.sectors_per_cluster,
      boot_sector.total_sectors, boot_sector.mft_lcn, partition_offset>>

\* C7: after a successful mount() no operation, close() and a repeated
\* mount() included, changes bytes_per_sector, sectors_per_cluster,
\* total_sectors, mft_lcn or partition_offset.
C7_GeometryFrozen == [][boot_sector.set => (boot_sector'.set /\ Geometry' = Geometry)]_vars

C7_Witness ==
    /\ boot_sector.set
    /\ result.op = "mount"
    /\ is_ok(result)
    /\ mft_cache # <<>>

\* C8: every record read_mft_entry has returned, and so every cached record,
\* has used_size <= allocated_size <= 1024.
C8_RecordSizes ==
    \A k \in DOMAIN mft_cache :
        /\ mft_cache[k].used_size <= mft_cache[k].allocated_size
        /\ mft_cache[k].allocated_size <= MftEntrySize

\* the last two bytes of some sector of the stored record differ from its
\* update sequence number
UsaMismatch(k) == \E i \in 1..2 : StoredRecord(k).tails[i] # StoredRecord(k).usn

\* C9: read_mft_entry of a record in which the last two bytes of a sector
\* differ from the update sequence number returns INVALID_MFT.
C9_UsaMismatchRejected ==
    (result.op = "read_mft_entry" /\ lifecycle = "Mounted" /\ UsaMismatch(result.arg))
        => result.error = "INVALID_MFT"

RECURSIVE RunClusters(_)
RunClusters(runs) == IF runs = <<>> THEN 0 ELSE Head(runs).length + RunClusters(Tail(runs))

ClusterBytes == boot_sector.bytes_per_sector * boot_sector.sectors_per_cluster

\* the unnamed $DATA attribute read_data reads
DataAttr(f) == f.mft_entry.attributes[FindData(f.mft_entry.attributes, 1)]

\* C10: for a live file with a non-resident unnamed $DATA attribute a on a
\* mounted volume, the runs of a cover ceil(a.data_size / cluster bytes)
\* clusters and a successful read_data() returns exactly a.data_size bytes.
C10_ReadDataExact ==
    (/\ result.op = "read_data"
     /\ is_ok(result)
     /\ lifecycle = "Mounted"
     /\ is_in_use(result.arg.mft_entry)
     /\ FindData(result.arg.mft_entry.attributes, 1) # 0
     /\ ~DataAttr(result.arg).resident)
        => /\ RunClusters(DataAttr(result.arg).data_runs) * ClusterBytes
                  >= DataAttr(result.arg).data_size
           /\ PLen(result.data.pieces) = DataAttr(result.arg).data_size

\* the view f has a non-resident unnamed $DATA attribute
NonResidentView(f) ==
    FindData(f.mft_entry.attributes, 1) # 0 /\ ~DataAttr(f).resident

\* the cluster read of the run fails on the volume as it is
RunFails(run) == read_clusters(Volume, run.cluster, run.length).error # ""

SomeRunFails(f) ==
    \E i \in 1..Len(DataAttr(f).data_runs) : RunFails(DataAttr(f).data_runs[i])

\* the bytes of the runs from the i-th on that can be read, in run order
RECURSIVE SurvivingBytes(_, _)
SurvivingBytes(runs, i) ==
    IF i > Len(runs) THEN <<>>
    ELSE IF RunFails(runs[i]) THEN SurvivingBytes(runs, i + 1)
    ELSE PCat(read_clusters(Volume, runs[i].cluster, runs[i].length).data.pieces,
              SurvivingBytes(runs, i + 1))

\* C11: on a non-resident stream with a run whose cluster read fails,
\* read_data() returns an error and no bytes, and read_deleted_data() returns
\* success with the bytes of the runs that can be read, in run order,
\* truncated to data_size.
C11_Step ==
    /\ (/\ result'.op = "read_data"
        /\ NonResidentView(result'.arg)
        /\ SomeRunFails(result'.arg))
           => (is_err(result') /\ result'.data = NoneData)
    /\ (/\ result'.op = "read_deleted_data"
        /\ NonResidentView(result'.arg)
        /\ SomeRunFails(result'.arg))
           => /\ is_ok(result')
              /\ result'.data.pieces =
                     PTake(SurvivingBytes(DataAttr(result'.arg).data_runs, 1),
                           DataAttr(result'.arg).data_size)

C11_PartialReads == [][C11_Step]_vars

C11_Witness ==
    /\ result.op = "read_deleted_data"
    /\ lifecycle = "Mounted"
    /\ NonResidentView(result.arg)
    /\ SomeRunFails(result.arg)
    /\ PLen(result.data.pieces) > 0

\* every run of the view's unnamed $DATA attribute has cluster -1
AllSparse(f) ==
    /\ DataAttr(f).data_runs # <<>>
    /\ \A i \in 1..Len(DataAttr(f).data_runs) : DataAttr(f).data_runs[i].cluster = 0 - 1

\* n bytes none of which was read from a segment file
ZeroBytes(d, n) ==
    /\ ~d.none
    /\ PLen(d.pieces) = n
    /\ \A i \in 1..Len(d.pieces) : d.pieces[i].seg = 0

\* C12: a data run with lcn = -1 contributes length * cluster_bytes zero
\* bytes to read_data() and read_deleted_data() and no read of the image, and
\* read_clusters(-1, count) yields count * cluster_bytes zero bytes.
C12_SparseRunsAreZeros ==
    /\ (/\ lifecycle = "Mounted"
        /\ result.op \in {"read_data", "read_deleted_data"}
        /\ NonResidentView(result.arg)
        /\ AllSparse(result.arg))
           => /\ is_ok(result)
              /\ ZeroBytes(result.data,
                           Min(DataAttr(result.arg).data_size,
                               RunClusters(DataAttr(result.arg).data_runs) * ClusterBytes))
    /\ (/\ lifecycle = "Mounted"
        /\ result.op = "read_clusters"
        /\ result.arg[1] = 0 - 1)
           => (is_ok(result) /\ ZeroBytes(result.data, result.arg[2] * ClusterBytes))

\* the view is of one of the records 0..11 and has a name starting with "$"
SystemFile(f) == f.mft_entry.reference <= 11 /\ startswith_dollar(f.name)

\* C13: no file returned by list_files or list_deleted_files refers to an
\* MFT record with index <= 11 and has a name starting with "$".
C13_NoSystemFilesListed ==
    (result.op \in {"list_files", "list_deleted_files"} /\ is_ok(result))
        => \A i \in 1..Len(result.files) : ~SystemFile(result.files[i])

\* the names the $FILE_NAME attributes of the view's record give in a
\* namespace other than DOS (2)
LongNames(f) ==
    {ContentName(f.mft_entry.attributes[i]) :
        i \in {j \in 1..Len(f.mft_entry.attributes) :
                  /\ f.mft_entry.attributes[j].type_id = FILE_NAME
                  /\ f.mft_entry.attributes[j].data.content.namespace # 2}}

\* C14: the name of every listed file comes from a $FILE_NAME attribute whose
\* namespace is not DOS (2); for a record with a DOS name and a WIN32 or POSIX
\* name, in either order, the listed name is the WIN32 or POSIX one.
C14_LongNamePreferred ==
    (result.op \in {"list_files", "list_deleted_files"} /\ is_ok(result))
        => \A i \in 1..Len(result.files) : result.files[i].name \in LongNames(result.files[i])

\* str.upper() on the same characters: U+00DF becomes "SS"
UpperChar(c) ==
    IF c >= 97 /\ c <= 122 THEN <<c - 32>> ELSE IF c = 223 THEN <<83, 83>> ELSE <<c>>

RECURSIVE Upper(_)
Upper(name) == IF name = <<>> THEN <<>> ELSE UpperChar(Head(name)) \o Upper(Tail(name))

\* the directories of the images, by path, and the path of the entry n of one
Directories == {<<Slash>>, <<Slash, 100>>}

Join(dir, n) == IF dir = <<Slash>> THEN dir \o n ELSE dir \o <<Slash>> \o n

\* every entry of the listing whose name equals that of the i-th ignoring case
\* refers to the same record
Unambiguous(files, i) ==
    \A j \in 1..Len(files) :
        Lower(files[j].name) = Lower(files[i].name)
            => files[j].mft_entry.reference = files[i].mft_entry.reference

\* upper-casing the name does not change what it is in lower case
CaseStable(n) == Lower(Upper(n)) = Lower(n)

\* the last call resolved the i-th entry of the listing of dir by its name in
\* upper or in lower case
Resolved(dir, files, i) ==
    result.arg \in {Join(dir, Upper(files[i].name)), Join(dir, Lower(files[i].name))}
        => (is_ok(result)
            /\ result.entry.reference = files[i].mft_entry.reference)

\* C15 as stated: for every directory and every name n it lists,
\* get_file_by_path with n in upper case and with n in lower case succeeds and
\* returns the record the listed entry refers to.
C15_AnyNameResolves ==
    (lifecycle = "Mounted" /\ result.op = "get_file_by_path")
        => \A dir \in Directories :
               LET all(files) == \A i \in 1..Len(files) : Resolved(dir, files, i)
               IN  all(list_files(Volume, dir).files)

\* C15: for every directory and every name n it lists such that no entry
\* of the directory with the same name ignoring case refers to another
\* record, and such that upper-casing n keeps its lower-case form,
\* get_file_by_path with n in upper case and with n in lower case succeeds and
\* returns the record the listed entry refers to.
C15_CaseInsensitive ==
    (lifecycle = "Mounted" /\ result.op = "get_file_by_path")
        => \A dir \in Directories :
               LET all(files) ==
                       \A i \in 1..Len(files) :
                           (Unambiguous(files, i) /\ CaseStable(files[i].name))
                               => Resolved(dir, files, i)
               IN  all(list_files(Volume, dir).files)

C15_Witness ==
    /\ lifecycle = "Mounted"
    /\ result.op = "get_file_by_path"
    /\ is_ok(result)
    /\ \E dir \in Directories :
           LET some(files) ==
                   \E i \in 1..Len(files) :
                       /\ Unambiguous(files, i)
                       /\ CaseStable(files[i].name)
                       /\ Upper(files[i].name) # files[i].name
                       /\ result.arg = Join(dir, Upper(files[i].name))
           IN  some(list_files(Volume, dir).files)

\* the first entry of the listing whose name equals the component ignoring
\* case: its position, 0 if none
FirstMatch(files, part) ==
    LET hits == {i \in 1..Len(files) : Lower(files[i].name) = Lower(part)}
    IN  IF hits = {} THEN 0 ELSE CHOOSE i \in hits : \A j \in hits : i <= j

NotFound == 0 - 1
Unreadable == 0 - 2

\* the record the components lead to from the record cur, going by what the
\* directories list
RECURSIVE Expected(_, _)
Expected(parts, cur) ==
    IF parts = <<>> THEN cur
    ELSE LET step(files, i) ==
                 IF i = 0 THEN NotFound
                 ELSE Expected(Tail(parts), files[i].mft_entry.reference)
             dir(d) ==
                 IF d.kind # "ok" THEN Unreadable
                 ELSE IF ~is_directory(d.entry) THEN NotFound
                 ELSE LET match(files) == step(files, FirstMatch(files, Head(parts)))
                      IN  match(list_directory(Volume, d.entry).files)
         IN  dir(read_mft_entry(Volume, cur))

\* the call returned the record k
Returned(k) ==
    /\ is_ok(result)
    /\ result.entry.reference = k
    /\ result.entry = read_mft_entry(Volume, k).entry

\* C16: on a mounted volume get_file_by_path returns record 5 for the paths
\* "", "/" and "."; for any other path it goes from record 5 through the
\* components, returns NOT_FOUND when a component has no matching entry in
\* the current directory or the record it is at is not a directory, and
\* otherwise returns the record of the last component.
C16_PathResolution ==
    (lifecycle = "Mounted" /\ result.op = "get_file_by_path")
        => IF result.arg \in {<<>>, <<Slash>>, <<Dot>>}
           THEN Returned(RootEntry)
           ELSE LET to(k) ==
                        /\ k = NotFound => result.error = "NOT_FOUND"
                        /\ k >= 0 => Returned(k)
                IN  to(Expected(PathParts(result.arg, <<>>, <<>>), RootEntry))

C16_Witness ==
    /\ lifecycle = "Mounted"
    /\ result.op = "get_file_by_path"
    /\ Len(PathParts(result.arg, <<>>, <<>>)) = 2
    /\ is_ok(result)
    /\ result.entry.reference # RootEntry

\* the index block of the root directory lists a record that does not decode
RootListsBadRecord ==
    /\ ClusterPos(IndexLcn) \in DOMAIN image.indx
    /\ \E o \in DOMAIN image.indx[ClusterPos(IndexLcn)].entries :
           /\ image.indx[ClusterPos(IndexLcn)].entries[o].flags = 0
           /\ ~Decodes(image.indx[ClusterPos(IndexLcn)].entries[o].index)

\* C17: no error is swallowed while a live directory is listed: when the
\* read of an MFT record an index entry refers to fails, list_files returns
\* the error instead of a success value that leaves the entry out.
C17_ListingErrorsSurface ==
    (/\ lifecycle = "Mounted"
     /\ result.op = "list_files"
     /\ result.arg = <<Slash>>
     /\ RootListsBadRecord)
        => is_err(result)

\* the records of the image: reads of the numbers above ScanTop fail
ScanTop == ImageSize \div MftEntrySize

\* the scanned records that read and decode, have flags bit 0 clear and
\* carry a $FILE_NAME attribute
DeletedRecords ==
    {k \in 0..ScanTop :
        LET deleted(r) ==
                /\ r.kind = "ok"
                /\ r.entry.flags % 2 = 0
                /\ \E i \in 1..Len(r.entry.attributes) :
                       r.entry.attributes[i].type_id = FILE_NAME
        IN  deleted(read_mft_entry(Volume, k))}

\* C18: list_deleted_files succeeds and returns, in increasing order of
\* record number, exactly one view for each scanned record that reads and
\* decodes, has its in-use bit clear and carries a $FILE_NAME attribute;
\* records that fail to read or decode are passed over, and no record in use
\* is returned.
C18_DeletedListing ==
    (result.op = "list_deleted_files" /\ Running)
        => /\ is_ok(result)
           /\ {result.files[i].mft_entry.reference : i \in 1..Len(result.files)}
                  = DeletedRecords
           /\ \A i, j \in 1..Len(result.files) :
                  i < j => result.files[i].mft_entry.reference
                               < result.files[j].mft_entry.reference
           /\ \A i \in 1..Len(result.files) :
                  /\ result.files[i].mft_entry.flags % 2 = 0
                  /\ result.files[i]
                         = NTFSFile(mft_cache[result.files[i].mft_entry.reference])

C18_Witness ==
    /\ result.op = "list_deleted_files"
    /\ lifecycle = "Mounted"
    /\ Len(result.files) >= 2
    /\ \E k \in 0..ScanTop : ~Decodes(k) /\ k < result.files[Len(result.files)].mft_entry.reference
    /\ \E k \in DOMAIN mft_cache : mft_cache[k].flags % 2 = 1

\* the first entry of the stored partition table with type 0x07
FirstNtfs ==
    CHOOSE i \in 1..4 :
        /\ StoredMbr.ptype[i] = NtfsPartitionType
        /\ \A j \in 1..(i - 1) : StoredMbr.ptype[j] # NtfsPartitionType

\* 512 times the little-endian number in the LBA bytes of that entry
FirstNtfsOffset ==
    SectorSize * (StoredMbr.lba[FirstNtfs][1] + 256 * StoredMbr.lba[FirstNtfs][2]
                  + 65536 * StoredMbr.lba[FirstNtfs][3]
                  + 16777216 * StoredMbr.lba[FirstNtfs][4])

\* C19: mount() takes the first of the four MBR partition entries whose type
\* byte is 0x07 and sets partition_offset to 512 times the little-endian u32
\* at +8 of that entry; later entries of type 0x07 are ignored.
C19_FirstNtfsPartition ==
    /\ partition_offset # NoOffset
           => (~NoNtfsPartition /\ partition_offset = FirstNtfsOffset)
    /\ (result.op = "mount" /\ segs # <<>> /\ ~NoNtfsPartition)
           => partition_offset = FirstNtfsOffset

C19_Witness ==
    /\ result.op = "mount"
    /\ is_ok(result)
    /\ partition_offset = FirstNtfsOffset
    /\ \E i \in 1..4 : i > FirstNtfs /\ StoredMbr.ptype[i] = NtfsPartitionType

\* every attribute of the stored record from offset o up to the end mark
\* ends at or before used_size
RECURSIVE AttrsInside(_, _)
AttrsInside(rec, o) ==
    IF o >= rec.used_size \/ AttrAt(rec, o).type = AttrEnd \/ AttrAt(rec, o).len = 0
    THEN TRUE
    ELSE /\ o + AttrAt(rec, o).len <= rec.used_size
         /\ AttrsInside(rec, o + AttrAt(rec, o).len)

\* C20: every attribute of a decoded MFT record lies inside the record's
\* used_size (attr_offset + attr_length <= used_size); a record in which an
\* attribute crosses used_size before the end mark is rejected, not decoded.
C20_AttributesInsideUsedSize ==
    \A k \in DOMAIN mft_cache :
        AttrsInside(StoredRecord(k), StoredRecord(k).attrs_offset)

\* C21: from_bytes terminates on every 1024-byte record that begins with
\* FILE: every pass through the attribute walk moves attr_offset forward or
\* leaves the loop, also when the length field of an attribute is 0.
C21_WalkProgress ==
    [][(result.op = "from_bytes" /\ result'.op = "from_bytes")
          => \/ result'.loop.status # "loop"
             \/ result'.loop.attr_offset > result.loop.attr_offset]_vars

\* the value a sequence of bytes holds: unsigned little-endian, and two's
\* complement with the sign taken from the top bit of the last byte
RECURSIVE Unsigned(_)
Unsigned(b) == IF b = <<>> THEN 0 ELSE b[1] + 256 * Unsigned(Tail(b))

Signed(b) == IF b[Len(b)] >= 128 THEN Unsigned(b) - Pow256(Len(b)) ELSE Unsigned(b)

\* the descriptors of a run list up to its terminator or its end, each with
\* its length bytes and its offset bytes; whole = all its bytes are there
RECURSIVE Descriptors(_)
Descriptors(l) ==
    IF l = <<>> \/ l[1] = 0 THEN <<>>
    ELSE LET ls == l[1] % 16
             os == l[1] \div 16
         IN  IF 1 + ls + os > Len(l)
             THEN <<[len_size |-> ls, off_size |-> os, whole |-> FALSE,
                     len_bytes |-> <<>>, off_bytes |-> <<>>]>>
             ELSE <<[len_size |-> ls, off_size |-> os, whole |-> TRUE,
                     len_bytes |-> SubSeq(l, 2, 1 + ls),
                     off_bytes |-> SubSeq(l, 2 + ls, 1 + ls + os)]>>
                  \o Descriptors(SubSeq(l, 2 + ls + os, Len(l)))

\* a finished decoding of a run list the attribute holds at runs_offset
Decoded == /\ result.op = "from_raw_data"
           /\ result.loop.status # "loop"
           /\ result.arg.runs_offset = result.arg.runs_at

RunList == Descriptors(result.arg.runs)

\* the delta of a descriptor; one without offset bytes moves nothing
Delta(d) == IF d.off_size = 0 THEN 0 ELSE Signed(d.off_bytes)

RECURSIVE SumDeltas(_, _)
SumDeltas(ds, k) == IF k = 0 THEN 0 ELSE SumDeltas(ds, k - 1) + Delta(ds[k])

\* C22: when every descriptor of a run list has len_size >= 1 and
\* off_size >= 1, the decoder emits one run per descriptor, in order, up to
\* the terminator: the length is the unsigned value of the length bytes and
\* the lcn is the sum of the signed deltas up to that run.
C22_RunsDecoded ==
    (Decoded /\ \A k \in DOMAIN RunList :
                   RunList[k].whole /\ RunList[k].len_size >= 1 /\ RunList[k].off_size >= 1)
        => /\ Len(result.attr.data_runs) = Len(RunList)
           /\ \A k \in DOMAIN RunList :
                 /\ result.attr.data_runs[k].length = Unsigned(RunList[k].len_bytes)
                 /\ result.attr.data_runs[k].cluster = SumDeltas(RunList, k)

\* two runs decoded, the second with a negative delta, and a descriptor
\* after the terminator that is not decoded
C22_Witness ==
    /\ Decoded
    /\ result.arg.runs = <<17, 2, 17, 33, 3, 128, 255, 0>>
    /\ result.attr.data_runs = <<DataRun(17, 2), DataRun(17 - 128, 3)>>

Whole == \A k \in DOMAIN RunList : RunList[k].whole

\* C23: a descriptor with off_size 0 gives a sparse run (lcn -1, its length)
\* and leaves the cumulative lcn alone, the later runs and data_size being
\* decoded as with a delta of 0; a descriptor with len_size 0 and a nonzero
\* header is rejected and never gives a run.
C23_SparseAndMalformed ==
    (Decoded /\ Whole)
        => /\ (\A k \in DOMAIN RunList : RunList[k].len_size >= 1)
                => /\ Len(result.attr.data_runs) = Len(RunList)
                   /\ \A k \in DOMAIN RunList :
                         /\ result.attr.data_runs[k].length = Unsigned(RunList[k].len_bytes)
                         /\ result.attr.data_runs[k].cluster =
                                IF RunList[k].off_size = 0 THEN 0 - 1
                                ELSE SumDeltas(RunList, k)
                   /\ result.attr.data_size = result.arg.data_size
           /\ \A k \in DOMAIN RunList :
                 RunList[k].len_size = 0 => Len(result.attr.data_runs) < k

\* C24: the data-run decoder terminates on every input: every pass through
\* its loop moves the read offset forward, never beyond the end of the
\* attribute, or leaves the loop, and the loop is left in the end.
C24_DecoderTerminates ==
    /\ [][(result.op = "from_raw_data" /\ result'.op = "from_raw_data")
            => \/ result'.loop.status # "loop"
               \/ /\ result'.loop.current_offset > result.loop.current_offset
                  /\ result'.loop.current_offset <= result.n]_vars
    /\ <>(result.op = "from_raw_data" /\ result.loop.status # "loop")

\* the loop left after a run of length 0 and a descriptor without offset bytes
C24_Witness ==
    /\ result.op = "from_raw_data"
    /\ result.loop.status = "raised"
    /\ result.arg.runs = <<16, 4, 1, 3>>
    /\ result.loop.runs = <<DataRun(4, 0)>>

\* the positions of the unnamed $DATA attributes of a view's record
UnnamedData(f) ==
    {i \in DOMAIN f.mft_entry.attributes :
        /\ f.mft_entry.attributes[i].type_id = DATA
        /\ f.mft_entry.attributes[i].name = <<>>}

\* the size an attribute declares: data_size, or the length of its content
DeclaredSize(a) == IF a.resident THEN PLen(a.data.pieces) ELSE a.data_size

\* C25: the size of a view is 0 for a directory and for a record without an
\* unnamed $DATA, and else the size an unnamed $DATA declares, named $DATA
\* standing aside; read_data() reads the attribute the size comes from, so
\* that on a live file with resident unnamed $DATA it returns size bytes,
\* whatever the number of $DATA attributes of the record.
C25_SizeAndDataAgree ==
    /\ \A f \in views :
          IF f.is_directory \/ UnnamedData(f) = {} THEN f.size = 0
          ELSE \E i \in UnnamedData(f) : f.size = DeclaredSize(f.mft_entry.attributes[i])
    /\ (/\ result.op = "read_data"
        /\ result.error = ""
        /\ result.arg.mft_entry.flags % 2 = 1
        /\ ~result.arg.is_directory
        /\ UnnamedData(result.arg) # {}
        /\ \A i \in UnnamedData(result.arg) : result.arg.mft_entry.attributes[i].resident)
          => PLen(result.data.pieces) = result.arg.size

\* the record numbers of the files of a listing, in order
Refs(files) == [i \in DOMAIN files |-> files[i].mft_entry.reference]

\* C26: a listing of one directory never holds two entries for the same MFT
\* record, also when the index names the record twice (DOS and WIN32 name)
\* or both $INDEX_ROOT and $INDEX_ALLOCATION lead to it.
C26_NoDuplicateRecords ==
    (result.op = "list_files" /\ result.error = "")
        => \A i, j \in DOMAIN result.files :
              Refs(result.files)[i] = Refs(result.files)[j] => i = j

\* the entries of an index by the layout of NTFS (file reference at +0,
\* entry_length at +8, flags at +12), from offset o on: each one
\* entry_length after the one before, up to the first that has the
\* last-entry flag 0x02 or the length 0
RECURSIVE IndexEntries(_, _)
IndexEntries(entries, o) ==
    IF o \notin DOMAIN entries THEN <<>>
    ELSE IF (entries[o].flags \div 2) % 2 = 1 \/ entries[o].entry_length = 0 THEN <<>>
    ELSE <<entries[o]>> \o IndexEntries(entries, o + entries[o].entry_length)

\* the directory a list_files call has listed
ListedDir ==
    IF result.arg = <<Slash>> THEN RootEntry
    ELSE Expected(PathParts(result.arg, <<>>, <<>>), RootEntry)

\* the attributes of the given type stored in record k
StoredAttrs(k, t) ==
    {StoredRecord(k).attrs[o] : o \in {p \in DOMAIN StoredRecord(k).attrs :
                                          StoredRecord(k).attrs[p].type = t}}

\* the entries the $INDEX_ROOT of record k holds
RootIndex(k) ==
    IF StoredAttrs(k, INDEX_ROOT) = {} THEN <<>>
    ELSE LET content == (CHOOSE a \in StoredAttrs(k, INDEX_ROOT) : TRUE).content
         IN  IndexEntries(content.entries, 16 + content.entries_offset)

\* the entries an INDX block holds
BlockIndex(b) == IF b.sig = "INDX" THEN IndexEntries(b.entries, 24 + b.entries_offset) ELSE <<>>

\* an entry that leads to a record that can be listed, system files (a name
\* in "$" under a file reference up to 11) set aside
Listable(e) ==
    Decodes(e.index) /\ ~(startswith_dollar(e.name) /\ e.seq = 0 /\ e.index <= 11)

RootListable(e) == Listable(e) /\ e.name \notin {<<Dot>>, <<Dot, Dot>>}

Indices(es) == [i \in DOMAIN es |-> es[i].index]

\* the first INDX block of the $INDEX_ALLOCATION of record k
FirstIndexBlock(k) ==
    IF StoredAttrs(k, INDEX_ALLOCATION) = {} THEN ZeroBlock
    ELSE LET runs == (CHOOSE a \in StoredAttrs(k, INDEX_ALLOCATION) : TRUE).runs
         IN  IF Len(runs) >= 3 /\ ClusterPos(runs[3]) \in DOMAIN image.indx
             THEN image.indx[ClusterPos(runs[3])] ELSE ZeroBlock

\* C27: the walk of $INDEX_ROOT and the walk of an INDX block read the
\* entries by the same layout and stop at the first entry with the flag
\* 0x02: the listing holds the records of the entries of $INDEX_ROOT before
\* that entry, then those of the entries of the INDX block before its own,
\* and nothing of what follows either.
C27_SameEntryLayout ==
    (lifecycle = "Mounted" /\ result.op = "list_files" /\ result.error = "" /\ ListedDir >= 0)
        => LET root  == Indices(SelectSeq(RootIndex(ListedDir), RootListable))
               block == Indices(SelectSeq(BlockIndex(FirstIndexBlock(ListedDir)), Listable))
           IN  /\ Len(Refs(result.files)) >= Len(root) + Len(block)
               /\ SubSeq(Refs(result.files), 1, Len(root)) = root
               /\ SubSeq(Refs(result.files), Len(root) + 1, Len(root) + Len(block)) = block

\* the runs of the $INDEX_ALLOCATION of record k, as the record decodes
IndexRuns(k) ==
    LET attrs == MFTEntry_from_bytes(StoredRecord(k), Piece(1, RecordPos(k)[2], MftEntrySize),
                                     MftEntrySize).value.attributes
        ia    == {i \in DOMAIN attrs : attrs[i].type_id = INDEX_ALLOCATION}
    IN  IF ~Decodes(k) \/ ia = {} THEN <<>> ELSE attrs[CHOOSE i \in ia : TRUE].data_runs

\* the index records of a run: one per cluster on this volume
IndexRecords(run) ==
    {image.indx[ClusterPos(c)] :
        c \in {d \in run.cluster..(run.cluster + run.length - 1) :
                  ClusterPos(d) \in DOMAIN image.indx}}

\* the records the INDX blocks of directory k lead to
BlockRecords(k) ==
    {e.index : e \in UNION {Range(SelectSeq(BlockIndex(b), Listable)) :
                               b \in UNION {IndexRecords(IndexRuns(k)[i]) :
                                               i \in DOMAIN IndexRuns(k)}}}

\* C28: a run of $INDEX_ALLOCATION that spans several index records is read
\* as that many INDX blocks, each walked from its own node header: the
\* records of the entries of the second and later blocks are listed as
\* those of the first are.
C28_EveryIndexBlockWalked ==
    (lifecycle = "Mounted" /\ result.op = "list_files" /\ result.error = "" /\ ListedDir >= 0)
        => BlockRecords(ListedDir) \subseteq Range(Refs(result.files))

\* the reader as open() leaves it, no read made yet
FreshReader == SplitImageFile_open(SplitImageFile_init, segs).si

\* C29: what read(o, n) returns does not depend on the reads made before
\* it, also when the range goes on into a following segment: it is what the
\* same read returns on a reader that has just been opened.
C29_ReadIgnoresHistory ==
    (result.op = "read" /\ AllOpen)
        => result.data = SplitImageFile_read(FreshReader, segs,
                                             result.arg[1], result.arg[2]).data

\* C30: search_files and extract_all_files terminate on every directory
\* graph: a directory is never descended into while a descent into it is
\* still going on, so that no descent can repeat itself without end, also
\* when an index lists the directory itself or one above it.
C30_NoRepeatedDescent ==
    (result.op \in {"search_files", "extract_all_files"})
        => \A i, j \in DOMAIN result.stack :
              result.stack[i].ref = result.stack[j].ref => i = j

====
